---- MODULE Spec2Model ----
(***************************************************************************)
(* A model of the microplanning structures of nlg/structures.py: the       *)
(* Element hierarchy (String, Word, PlaceHolder, Phrase and its            *)
(* specialisations, CC), the traversal constituents()/arguments(), the     *)
(* substitution replace()/replace_argument()/replace_arguments(), the      *)
(* feature store and the VP object accessors.                              *)
(*                                                                         *)
(* An Element is a record whose field "kind" is the name of its Python     *)
(* class; the other fields are the attributes the constructors set.        *)
(* Python's None is the record None.  A raw Python str is the record       *)
(* RawStr(v).  An id is a string; the string "0" stands for the integer 0  *)
(* that Element.__init__ assigns, every other id is a Python str.          *)
(* A node of a tree is identified by its path from the root: a sequence    *)
(* of steps <<slot, index>> (index 0 for a single-valued slot).            *)
(***************************************************************************)
EXTENDS Integers, Sequences, FiniteSets, TLC

VARIABLES tree, last

vars == <<tree, last>>

\* ------------------------------------------------------------------ values

None == [kind |-> "None"]

\* None as the value of a scalar attribute (type, discourse_fn, pos, a feature
\* value, an omitted parameter)
PyNone == "<None>"

RawStr(v) == [kind |-> "str", val |-> v]

NoFeatures == [k \in {} |-> ""]

\* isinstance(x, str)
IsStr(x) == x.kind = "str"

PhraseKinds == {"Phrase", "Clause", "NP", "VP", "PP", "AdvP", "AdjP"}

LeafKinds == {"String", "Word", "PlaceHolder"}

ElementKinds == PhraseKinds \cup LeafKinds \cup {"CC", "Element"}

\* isinstance(x, Element) and isinstance(x, Phrase)
IsElement(x) == x.kind \in ElementKinds

IsPhrase(x) == x.kind \in PhraseKinds

\* The four list slots of a Phrase, and the list slot of a CC.
ListSlots == {"front_modifier", "pre_modifier", "complement", "post_modifier"}

\* ------------------------------------------------------------ constructors

\* Element.__init__: id 0, the visitor name, an empty feature map.
Element(vname) == [kind |-> "Element", id |-> "0", _visitor_name |-> vname,
                   _features |-> NoFeatures]

\* String.__init__
String(val) == [kind |-> "String", id |-> "0", _visitor_name |-> "visit_string",
                _features |-> NoFeatures, val |-> val]

\* Word.__init__
Word(word, pos) == [kind |-> "Word", id |-> "0", _visitor_name |-> "visit_word",
                    _features |-> NoFeatures, word |-> word, pos |-> pos]

\* String(x) if isinstance(x, str) else x
Coerce(x) == IF IsStr(x) THEN String(x.val) ELSE x

\* Element._strings_to_elements, on a sequence of parameters
strings_to_elements(params) == [i \in 1..Len(params) |-> Coerce(params[i])]

\* PlaceHolder.__init__ (with PlaceHolder.set_value)
PlaceHolder(id, obj) == [kind |-> "PlaceHolder", id |-> id,
                         _visitor_name |-> "visit_placeholder",
                         _features |-> NoFeatures, value |-> Coerce(obj)]

\* PlaceHolder.set_value
set_value(self, val) == [self EXCEPT !.value = Coerce(val)]

\* Phrase.__init__
Phrase(type, discourse_fn, vname) ==
    [kind |-> "Phrase", id |-> "0", _visitor_name |-> vname, _features |-> NoFeatures,
     type |-> type, discourse_fn |-> discourse_fn,
     front_modifier |-> <<>>, pre_modifier |-> <<>>, head |-> None,
     complement |-> <<>>, post_modifier |-> <<>>]

\* ---------------------------------------------------------------- equality

\* Python's a == b for the values of the model.  Every class of the module
\* returns False (never NotImplemented) for an operand of another class, so
\* the left operand's __eq__ decides; None == b falls back to b being None.
RECURSIVE Eq(_, _), EqList(_, _)

\* Element.__eq__
Element_eq(self, other) ==
    /\ IsElement(other)
    /\ self.id = other.id
    /\ self._visitor_name = other._visitor_name
    /\ self._features = other._features

\* String.__eq__
String_eq(self, other) ==
    /\ other.kind = "String"
    /\ self.val = other.val
    /\ Element_eq(self, other)

\* Word.__eq__
Word_eq(self, other) ==
    /\ other.kind = "Word"
    /\ self.word = other.word
    /\ self.pos = other.pos
    /\ Element_eq(self, other)

\* PlaceHolder.__eq__
PlaceHolder_eq(self, other) ==
    /\ other.kind = "PlaceHolder"
    /\ self.id = other.id
    /\ Eq(self.value, other.value)
    /\ Element_eq(self, other)

\* Phrase.__eq__
Phrase_eq(self, other) ==
    /\ IsPhrase(other)
    /\ self.type = other.type
    /\ self.discourse_fn = other.discourse_fn
    /\ EqList(self.front_modifier, other.front_modifier)
    /\ EqList(self.pre_modifier, other.pre_modifier)
    /\ Eq(self.head, other.head)
    /\ EqList(self.complement, other.complement)
    /\ EqList(self.post_modifier, other.post_modifier)
    /\ Element_eq(self, other)

\* Clause.__eq__
Clause_eq(self, other) ==
    /\ other.kind = "Clause"
    /\ Eq(self.subj, other.subj)
    /\ Eq(self.vp, other.vp)
    /\ Phrase_eq(self, other)

\* NP.__eq__
NP_eq(self, other) ==
    /\ other.kind = "NP"
    /\ Eq(self.spec, other.spec)
    /\ Eq(self.head, other.head)
    /\ Phrase_eq(self, other)

\* CC.__eq__
CC_eq(self, other) ==
    /\ other.kind = "CC"
    /\ EqList(self.coords, other.coords)
    /\ Element_eq(self, other)

\* list.__eq__: same length and pairwise equal
EqList(s, t) ==
    /\ Len(s) = Len(t)
    /\ \A i \in 1..Len(s) : Eq(s[i], t[i])

Eq(a, b) ==
    CASE a.kind = "None" -> b.kind = "None"
      [] a.kind = "str" -> b.kind = "str" /\ a.val = b.val
      [] a.kind = "String" -> String_eq(a, b)
      [] a.kind = "Word" -> Word_eq(a, b)
      [] a.kind = "PlaceHolder" -> PlaceHolder_eq(a, b)
      [] a.kind = "Clause" -> Clause_eq(a, b)
      [] a.kind = "NP" -> NP_eq(a, b)
      [] a.kind = "CC" -> CC_eq(a, b)
      [] a.kind \in {"Phrase", "VP", "PP", "AdvP", "AdjP"} -> Phrase_eq(a, b)
      [] OTHER -> Element_eq(a, b)

\* x in lst
In(x, lst) == \E i \in 1..Len(lst) : Eq(lst[i], x)

\* ------------------------------------------------- lists and phrase setters

\* A faulty _add_to_list that appends every coerced modifier
add_to_list_all(lst, mods) == lst \o strings_to_elements(mods)

\* Element._add_to_list: append each coerced modifier not yet in the list
RECURSIVE add_to_list(_, _)
add_to_list(lst, mods) ==
    IF mods = <<>> THEN lst
    ELSE LET p == Coerce(Head(mods))
         IN  add_to_list(IF In(p, lst) THEN lst ELSE Append(lst, p), Tail(mods))

\* Phrase.add_front_modifier / add_pre_modifier / add_complement /
\* add_post_modifier, the list named by slot
add_modifier(self, slot, mods) ==
    [self EXCEPT ![slot] = add_to_list(self[slot], mods)]

\* Phrase.set_head
set_head(self, elt) == [self EXCEPT !.head = Coerce(elt)]

\* Clause.set_subj
set_subj(self, subj) == [self EXCEPT !.subj = Coerce(subj)]

\* Clause.set_vp
set_vp(self, vp) == [self EXCEPT !.vp = Coerce(vp)]

\* NP.set_spec
set_spec(self, spec) == [self EXCEPT !.spec = Coerce(spec)]

\* A record with one more attribute
WithAttr(r, k, v) == [f \in DOMAIN r \cup {k} |-> IF f = k THEN v ELSE r[f]]

\* The Phrase part of a subclass constructor: super().__init__(type, vname)
SubPhrase(kind, type, vname) == [Phrase(type, PyNone, vname) EXCEPT !.kind = kind]

\* Clause.__init__
Clause(subj, vp) ==
    set_vp(set_subj(WithAttr(WithAttr(SubPhrase("Clause", "CLAUSE", "visit_clause"),
                                      "subj", None), "vp", None), subj), vp)

\* NP.__init__
NP(head, spec, compl) ==
    LET o == set_head(set_spec(WithAttr(SubPhrase("NP", "NOUN_PHRASE", "visit_np"),
                                        "spec", None), spec), head)
    IN  IF compl # None THEN add_modifier(o, "complement", <<compl>>) ELSE o

\* VP.__init__
VP(head, compl) ==
    add_modifier(set_head(SubPhrase("VP", "VERB_PHRASE", "visit_vp"), head),
                 "complement", compl)

\* PP.__init__
PP(head, compl) ==
    add_modifier(set_head(SubPhrase("PP", "PREPOSITIONAL_PHRASE", "visit_pp"), head),
                 "complement", compl)

\* AdvP.__init__
AdvP(head, compl) ==
    add_modifier(set_head(SubPhrase("AdvP", "ADVERB_PHRASE", "visit_pp"), head),
                 "complement", compl)

\* AdjP.__init__
AdjP(head, compl) ==
    add_modifier(set_head(SubPhrase("AdjP", "ADJECTIVE_PHRASE", "visit_pp"), head),
                 "complement", compl)

\* Element.add_feature
add_feature(self, feature, value) ==
    [self EXCEPT !._features = WithAttr(self._features, feature, value)]

\* CC.add_coordinate
add_coordinate(self, elts) ==
    [self EXCEPT !.coords = self.coords \o strings_to_elements(elts)]

\* CC.__init__
CC(coords, conj) ==
    add_feature(add_coordinate(WithAttr([Element("visit_cc") EXCEPT !.kind = "CC"],
                                        "coords", <<>>), coords), "conj", conj)

\* ---------------------------------------------------------------- traversal

\* The node at a path below n
RECURSIVE NodeAt(_, _)
NodeAt(n, path) ==
    IF path = <<>> THEN n
    ELSE LET st == Head(path)
         IN  NodeAt(IF st[2] = 0 THEN n[st[1]] ELSE n[st[1]][st[2]], Tail(path))

\* Each path of a sequence of paths, below one more step
Below(st, paths) == [i \in 1..Len(paths) |-> <<st>> \o paths[i]]

RECURSIVE constituents(_)
RECURSIVE yield_list(_, _, _)

\* for o in self.<slot>[i:]: for x in o.constituents(): yield x
yield_list(self, slot, i) ==
    IF i > Len(self[slot]) THEN <<>>
    ELSE Below(<<slot, i>>, constituents(self[slot][i])) \o yield_list(self, slot, i + 1)

\* if self.<slot> is not None: for x in self.<slot>.constituents(): yield x
yield_single(self, slot) ==
    IF self[slot] # None THEN Below(<<slot, 0>>, constituents(self[slot])) ELSE <<>>

\* Phrase.yield_front_modifiers
yield_front_modifiers(self) == yield_list(self, "front_modifier", 1)

\* Phrase.yield_pre_modifiers
yield_pre_modifiers(self) == yield_list(self, "pre_modifier", 1)

\* A faulty yield_head that yields nothing
yield_head_nothing(self) == <<>>

\* Phrase.yield_head
yield_head(self) == yield_single(self, "head")

\* Phrase.yield_complements
yield_complements(self) == yield_list(self, "complement", 1)

\* Phrase.yield_post_modifiers
yield_post_modifiers(self) == yield_list(self, "post_modifier", 1)

\* Phrase.constituents
Phrase_constituents(self) ==
    yield_front_modifiers(self) \o yield_pre_modifiers(self) \o yield_head(self)
        \o yield_complements(self) \o yield_post_modifiers(self)

\* A faulty Clause.constituents that yields the subject first
Clause_constituents_subj_first(self) ==
    yield_single(self, "subj") \o yield_front_modifiers(self)
        \o yield_pre_modifiers(self) \o yield_single(self, "vp")
        \o yield_complements(self) \o yield_post_modifiers(self)

\* Clause.constituents
Clause_constituents(self) ==
    yield_front_modifiers(self) \o yield_single(self, "subj")
        \o yield_pre_modifiers(self) \o yield_single(self, "vp")
        \o yield_complements(self) \o yield_post_modifiers(self)

\* NP.constituents
NP_constituents(self) ==
    yield_single(self, "spec") \o yield_front_modifiers(self)
        \o yield_pre_modifiers(self) \o yield_head(self)
        \o yield_complements(self) \o yield_post_modifiers(self)

\* CC.constituents: a coordinate that has no constituents() (a raw str) is
\* yielded itself
RECURSIVE CC_yield(_, _)
CC_yield(self, i) ==
    IF i > Len(self.coords) THEN <<>>
    ELSE (IF IsElement(self.coords[i])
          THEN Below(<<"coords", i>>, constituents(self.coords[i]))
          ELSE << <<<<"coords", i>>>> >>) \o CC_yield(self, i + 1)

CC_constituents(self) == CC_yield(self, 1)

\* x.constituents(), as the paths of the yielded nodes below x, in the order
\* they are yielded: a leaf yields itself, the base Element yields nothing
constituents(self) ==
    CASE self.kind \in LeafKinds -> << <<>> >>
      [] self.kind = "Clause" -> Clause_constituents(self)
      [] self.kind = "NP" -> NP_constituents(self)
      [] self.kind = "CC" -> CC_constituents(self)
      [] self.kind \in {"Phrase", "VP", "PP", "AdvP", "AdjP"} -> Phrase_constituents(self)
      [] OTHER -> <<>>

\* A faulty arguments that keeps every constituent
arguments_any(self) == constituents(self)

\* Element.arguments: the constituents that are PlaceHolders
arguments(self) ==
    SelectSeq(constituents(self), LAMBDA p : NodeAt(self, p).kind = "PlaceHolder")

\* ------------------------------------------------------------- substitution

\* The outcome of a call that may mutate its receiver: the value returned,
\* the receiver afterwards, and the exception raised ("" when none)
Return(v, node) == [ret |-> v, node |-> node, exc |-> ""]

Raise(e, node) == [ret |-> FALSE, node |-> node, exc |-> e]

\* The call ended: it returned True or raised
Ended(r) == r.ret \/ r.exc # ""

RECURSIVE replace(_, _, _)
RECURSIVE scan_list(_, _, _, _, _, _)

\* One of the four loops of Phrase.replace, from index i on:
\*   for i, o in enumerate(self.<slot>):
\*       if o == one:
\*           if another is None: del sent.<target>[i]
\*           else: self.<target>[i] = another
\*           return True
\*       else:
\*           if o.replace(one, another): return True
\* sent is not a name of the function or the module, so the deletion raises
\* NameError; an assignment past the end of <target> raises IndexError.
scan_list(self, slot, target, i, one, another) ==
    IF i > Len(self[slot]) THEN Return(FALSE, self)
    ELSE LET o == self[slot][i]
         IN  IF Eq(o, one)
             THEN IF another = None THEN Raise("NameError", self)
                  ELSE IF i > Len(self[target]) THEN Raise("IndexError", self)
                  ELSE Return(TRUE, [self EXCEPT ![target][i] = another])
             ELSE LET r == replace(o, one, another)
                  IN  IF r.exc # "" THEN Raise(r.exc, self)
                      ELSE IF r.ret THEN Return(TRUE, [self EXCEPT ![slot][i] = r.node])
                      ELSE scan_list(self, slot, target, i + 1, one, another)

\* The test of a single-valued slot (head, subj, vp, spec):
\*   if self.<slot> == one: self.<slot> = another; return True
\*   elif self.<slot> is not None:
\*       if self.<slot>.replace(one, another): return True
scan_single(self, slot, one, another) ==
    IF Eq(self[slot], one) THEN Return(TRUE, [self EXCEPT ![slot] = another])
    ELSE IF self[slot] # None
         THEN LET r == replace(self[slot], one, another)
              IN  IF r.exc # "" THEN Raise(r.exc, self)
                  ELSE IF r.ret THEN Return(TRUE, [self EXCEPT ![slot] = r.node])
                  ELSE Return(FALSE, self)
         ELSE Return(FALSE, self)

\* The loop over post_modifier: it assigns to and deletes from front_modifier
Phrase_replace_post(self, one, another) ==
    scan_list(self, "post_modifier", "front_modifier", 1, one, another)

\* Phrase.replace
Phrase_replace(self, one, another) ==
    LET r1 == scan_list(self, "front_modifier", "front_modifier", 1, one, another)
        r2 == scan_list(self, "pre_modifier", "pre_modifier", 1, one, another)
        r3 == scan_single(self, "head", one, another)
        r4 == scan_list(self, "complement", "complement", 1, one, another)
        r5 == Phrase_replace_post(self, one, another)
    IN  IF Ended(r1) THEN r1
        ELSE IF Ended(r2) THEN r2
        ELSE IF Ended(r3) THEN r3
        ELSE IF Ended(r4) THEN r4
        ELSE r5

\* Clause.replace
Clause_replace(self, one, another) ==
    LET r1 == scan_single(self, "subj", one, another)
        r2 == scan_single(self, "vp", one, another)
    IN  IF Ended(r1) THEN r1
        ELSE IF Ended(r2) THEN r2
        ELSE Phrase_replace(self, one, another)

\* NP.replace
NP_replace(self, one, another) ==
    LET r1 == scan_single(self, "spec", one, another)
    IN  IF Ended(r1) THEN r1 ELSE Phrase_replace(self, one, another)

\* CC.replace: the coordinates themselves are compared, none is entered
RECURSIVE CC_scan(_, _, _, _)
CC_scan(self, i, one, another) ==
    IF i > Len(self.coords) THEN Return(FALSE, self)
    ELSE IF Eq(self.coords[i], one)
         THEN IF another # None
              THEN Return(TRUE, [self EXCEPT !.coords[i] = another])
              ELSE Return(TRUE, [self EXCEPT !.coords =
                       SubSeq(self.coords, 1, i - 1)
                           \o SubSeq(self.coords, i + 1, Len(self.coords))])
         ELSE CC_scan(self, i + 1, one, another)

CC_replace(self, one, another) == CC_scan(self, 1, one, another)

\* Element.replace
Element_replace(self, one, another) == Return(FALSE, self)

\* self.replace(one, another), by the class of self.  On raw text it is
\* str.replace, which raises TypeError as one is never a str.
replace(self, one, another) ==
    CASE self.kind = "Clause" -> Clause_replace(self, one, another)
      [] self.kind = "NP" -> NP_replace(self, one, another)
      [] self.kind = "CC" -> CC_replace(self, one, another)
      [] self.kind \in {"Phrase", "VP", "PP", "AdvP", "AdjP"} ->
             Phrase_replace(self, one, another)
      [] self.kind = "str" -> Raise("TypeError", self)
      [] OTHER -> Element_replace(self, one, another)

\* Element.replace_argument, from the i-th argument on
RECURSIVE replace_argument_from(_, _, _, _)
replace_argument_from(self, i, arg_id, repl) ==
    LET args == arguments(self)
    IN  IF i > Len(args) THEN Return(FALSE, self)
        ELSE LET a == NodeAt(self, args[i])
             IN  IF a.id = arg_id THEN replace(self, a, repl)
                 ELSE replace_argument_from(self, i + 1, arg_id, repl)

\* Element.replace_argument
replace_argument(self, arg_id, repl) == replace_argument_from(self, 1, arg_id, repl)

\* The characters of a str, as iterating it yields them; an id that is an
\* integer is not iterable
IsInt(k) == k = "0"

Chars(k) ==
    CASE k = "x" -> <<"x">>
      [] k = "y" -> <<"y">>
      [] k = "ab" -> <<"a", "b">>
      [] OTHER -> <<>>

\* for k, v in kwargs.items(): self.replace_argument(k, v)
\* over a sequence of <<key, value>> pairs; an exception ends the loop
RECURSIVE replace_each(_, _)
replace_each(self, pairs) ==
    IF pairs = <<>> THEN Return(PyNone, self)
    ELSE LET r == replace_argument(self, Head(pairs)[1], Head(pairs)[2])
         IN  IF r.exc # "" THEN [ret |-> PyNone, node |-> r.node, exc |-> r.exc]
             ELSE replace_each(r.node, Tail(pairs))

\* for k, v in args[0]: self.replace_argument(k, v)
\* args[0] is a dict, iterating it yields its keys, and each key is unpacked
\* into k, v: an int raises TypeError, a str of two characters gives them, a
\* str of another length raises ValueError
RECURSIVE replace_unpacked(_, _)
replace_unpacked(self, mapping) ==
    IF mapping = <<>> THEN Return(PyNone, self)
    ELSE LET key == Head(mapping)[1]
         IN  IF IsInt(key) THEN [ret |-> PyNone, node |-> self, exc |-> "TypeError"]
             ELSE IF Len(Chars(key)) # 2
                  THEN [ret |-> PyNone, node |-> self, exc |-> "ValueError: unpack"]
             ELSE LET r == replace_argument(self, Chars(key)[1], RawStr(Chars(key)[2]))
                  IN  IF r.exc # "" THEN [ret |-> PyNone, node |-> r.node, exc |-> r.exc]
                      ELSE replace_unpacked(r.node, Tail(mapping))

\* Element.replace_arguments(*args, **kwargs): args is the sequence of the
\* positional parameters (each a dict, as the sequence of its items), kwargs
\* the sequence of the named ones
replace_arguments(self, args, kwargs) ==
    IF Len(args) > 0 /\ Len(args) > 1
    THEN [ret |-> PyNone, node |-> self, exc |-> "ValueError: too many parameters"]
    ELSE IF Len(args) > 0 THEN replace_unpacked(self, args[1])
    ELSE replace_each(self, kwargs)

\* ------------------------------------------------------------ feature store

\* del self._features[feat]
WithoutKey(f, k) == [x \in DOMAIN f \ {k} |-> f[x]]

\* Element.del_feature(feat, val=None)
del_feature(self, feat, val) ==
    IF feat \in DOMAIN self._features
    THEN IF val # PyNone
         THEN [self EXCEPT !._features = WithoutKey(self._features, feat)]
         ELSE IF val = self._features[feat]
         THEN [self EXCEPT !._features = WithoutKey(self._features, feat)]
         ELSE self
    ELSE self

\* Element.has_feature
has_feature(self, feature) == feature \in DOMAIN self._features

\* Element.feature
feature(self, feat) == IF feat \in DOMAIN self._features THEN self._features[feat] ELSE PyNone

\* ---------------------------------------------------------------- VP object

\* hasattr(o, name): the attributes of an object are the fields of its record
HasAttr(o, name) == name \in DOMAIN o

\* 'discourseFunction' in c.features and c.features['discourseFunction'] == 'OBJECT'
\* (evaluated only where c has the attribute features)
IsObject(c) ==
    /\ "discourseFunction" \in DOMAIN c.features
    /\ c.features["discourseFunction"] = "OBJECT"

\* VP.get_object, from the i-th complement on
RECURSIVE get_object_from(_, _)
get_object_from(self, i) ==
    IF i > Len(self.complement) THEN Return(None, self)
    ELSE LET c == self.complement[i]
         IN  IF ~HasAttr(c, "features") THEN [ret |-> None, node |-> self, exc |-> "AttributeError"]
             ELSE IF IsObject(c) THEN Return(c, self)
             ELSE get_object_from(self, i + 1)

get_object(self) == get_object_from(self, 1)

\* The loop of VP.remove_object from the i-th complement on, compls so far
RECURSIVE remove_object_from(_, _, _)
remove_object_from(self, i, compls) ==
    IF i > Len(self.complement)
    THEN Return(PyNone, [self EXCEPT !.complement = compls])
    ELSE LET c == self.complement[i]
         IN  IF ~HasAttr(c, "features")
             THEN [ret |-> PyNone, node |-> self, exc |-> "AttributeError"]
             ELSE remove_object_from(self, i + 1,
                      IF IsObject(c) THEN compls ELSE Append(compls, c))

\* VP.remove_object
remove_object(self) == remove_object_from(self, 1, <<>>)

\* VP.set_object
set_object(self, obj) ==
    LET r == remove_object(self)
    IN  IF r.exc # "" THEN r
        ELSE IF obj # None
        THEN LET o == Coerce(obj)
             IN  IF ~HasAttr(o, "features")
                 THEN [ret |-> PyNone, node |-> r.node, exc |-> "AttributeError"]
                 ELSE Return(PyNone,
                        [r.node EXCEPT !.complement =
                            <<[o EXCEPT !.features =
                                 WithAttr(o.features, "discourseFunction", "OBJECT")]>>
                            \o r.node.complement])
        ELSE r

\* ------------------------------------------------------- the shape of trees

\* The single-valued child slots of a node, by its class
SingleSlots(n) ==
    CASE n.kind = "Clause" -> {"subj", "vp", "head"}
      [] n.kind = "NP" -> {"spec", "head"}
      [] n.kind \in {"Phrase", "VP", "PP", "AdvP", "AdjP"} -> {"head"}
      [] OTHER -> {}

\* The list-valued child slots of a node, by its class
SeqSlots(n) ==
    CASE n.kind \in PhraseKinds -> ListSlots
      [] n.kind = "CC" -> {"coords"}
      [] OTHER -> {}

\* The steps from a node to its children
Steps(n) ==
    {<<sl, 0>> : sl \in {x \in SingleSlots(n) : n[x] # None}}
        \cup UNION {{<<sl, i>> : i \in 1..Len(n[sl])} : sl \in SeqSlots(n)}

\* The paths of all nodes of the tree n (the empty path is n itself)
RECURSIVE Paths(_)
Paths(n) ==
    {<<>>} \cup UNION {{<<st>> \o p : p \in Paths(NodeAt(n, <<st>>))} : st \in Steps(n)}

\* The number of nodes of the tree n
RECURSIVE Size(_), SizeAll(_, _)
SizeAll(lst, i) == IF i > Len(lst) THEN 0 ELSE Size(lst[i]) + SizeAll(lst, i + 1)

Size(n) ==
    CASE n.kind = "None" -> 0
      [] n.kind = "CC" -> 1 + SizeAll(n.coords, 1)
      [] n.kind \in PhraseKinds ->
             1 + SizeAll(n.front_modifier, 1) + SizeAll(n.pre_modifier, 1)
               + Size(n.head) + SizeAll(n.complement, 1) + SizeAll(n.post_modifier, 1)
               + (IF n.kind = "Clause" THEN Size(n.subj) + Size(n.vp) ELSE 0)
               + (IF n.kind = "NP" THEN Size(n.spec) ELSE 0)
      [] OTHER -> 1

\* The nodes below the root of n
Descendants(n) == {NodeAt(n, p) : p \in Paths(n) \ {<<>>}}

\* ---------------------------------------------------------- text of a node

\* str(x) of an id, a value or a feature value: None prints as "None"
Text(x) == IF x = PyNone THEN "None" ELSE x

WhiteSpace == {" ", "\n", "\t"}

\* s.lstrip()
RECURSIVE lstrip(_)
lstrip(s) == IF s # "" /\ Head(s) \in WhiteSpace THEN lstrip(Tail(s)) ELSE s

\* s.rstrip()
RECURSIVE rstrip(_)
rstrip(s) ==
    IF s # "" /\ SubSeq(s, Len(s), Len(s)) \in WhiteSpace
    THEN rstrip(SubSeq(s, 1, Len(s) - 1))
    ELSE s

\* s.strip()
strip(s) == rstrip(lstrip(s))

\* ' '.join(parts)
RECURSIVE join(_)
join(parts) ==
    IF parts = <<>> THEN ""
    ELSE IF Len(parts) = 1 THEN parts[1]
    ELSE parts[1] \o " " \o join(Tail(parts))

\* A visitor while it walks a tree: the text gathered so far (self.text of a
\* StrVisitor, self.xml of an XmlVisitor) and the exception raised ("" when
\* none)
Visitor == [text |-> "", exc |-> ""]

\* self.text += s
Emit(v, s) == IF v.exc # "" THEN v ELSE [v EXCEPT !.text = @ \o s]

\* raise e
Fail(v, e) == IF v.exc # "" THEN v ELSE [v EXCEPT !.exc = e]

\* Element.get_feature: the value, or KeyError
get_feature(self, feat) ==
    IF feat \in DOMAIN self._features
    THEN [ret |-> self._features[feat], exc |-> ""]
    ELSE [ret |-> PyNone, exc |-> "KeyError"]

\* A faulty test that takes any value of NEGATION for a negation
Negated_any(node) == has_feature(node, "NEGATION")

\* node.has_feature('NEGATION') and node.get_feature('NEGATION') == 'TRUE'
Negated(node) == has_feature(node, "NEGATION") /\ get_feature(node, "NEGATION").ret = "TRUE"

\* ------------------------------------------------------------- str(element)

\* The outcome of str(x): the text, or the exception raised
Str(t) == [ret |-> t, exc |-> ""]

StrFail(e) == [ret |-> "", exc |-> e]

RECURSIVE str(_)
RECURSIVE str_all(_, _, _)

\* [str(o) for o in lst], from index i on, after the texts in done
str_all(lst, i, done) ==
    IF i > Len(lst) THEN [ret |-> done, exc |-> ""]
    ELSE LET r == str(lst[i])
         IN  IF r.exc # "" THEN [ret |-> done, exc |-> r.exc]
             ELSE str_all(lst, i + 1, Append(done, r.ret))

\* String.__str__
String_str(self) == Str(IF self.val = PyNone THEN "" ELSE self.val)

\* Word.__str__ and Word.to_str
Word_str(self) == Str(IF self.word = PyNone THEN "" ELSE self.word)

\* PlaceHolder.to_str (and __str__): an Element is true whatever it holds
PlaceHolder_to_str(self) ==
    IF self.value # None THEN str(self.value) ELSE Str(Text(self.id))

\* Phrase.__str__
Phrase_str(self) ==
    LET compl == IF "COMPLEMENTISER" \in DOMAIN self._features
                 THEN self._features["COMPLEMENTISER"] ELSE ""
        fm == str_all(self.front_modifier, 1, <<>>)
        pm == str_all(self.pre_modifier, 1, <<>>)
        hd == IF self.head # None THEN str(self.head) ELSE Str("")
        cm == str_all(self.complement, 1, <<>>)
        po == str_all(self.post_modifier, 1, <<>>)
        data == <<join(fm.ret), join(pm.ret), hd.ret, compl, join(cm.ret), join(po.ret)>>
    IN  IF fm.exc # "" THEN StrFail(fm.exc)
        ELSE IF pm.exc # "" THEN StrFail(pm.exc)
        ELSE IF hd.exc # "" THEN StrFail(hd.exc)
        ELSE IF cm.exc # "" THEN StrFail(cm.exc)
        ELSE IF po.exc # "" THEN StrFail(po.exc)
        ELSE IF compl = PyNone THEN StrFail("TypeError")
        ELSE Str(join(SelectSeq(data, LAMBDA x : x # "")))

\* Clause.__str__
Clause_str(self) ==
    LET r == str_all(SelectSeq(<<self.subj, self.vp>>, LAMBDA x : x # None), 1, <<>>)
    IN  IF r.exc # "" THEN StrFail(r.exc) ELSE Str(join(r.ret))

\* NP.__str__
NP_str(self) ==
    IF self.spec # None
    THEN LET a == str(self.spec)
             b == Phrase_str(self)
         IN  IF a.exc # "" THEN a
             ELSE IF b.exc # "" THEN b
             ELSE Str(a.ret \o " " \o b.ret)
    ELSE Phrase_str(self)

\* The loop of CC.__str__ from the i-th coordinate on; it reads self.conj,
\* an attribute no CC has
RECURSIVE CC_str_from(_, _, _)
CC_str_from(self, i, result) ==
    IF i > Len(self.coords) THEN Str(result)
    ELSE IF ~HasAttr(self, "conj") THEN StrFail("AttributeError")
    ELSE LET sep == IF self.conj = "and" /\ i - 1 < Len(self.coords) - 2 THEN ", "
                    ELSE IF self.conj = "and" /\ i - 1 = Len(self.coords) - 1 THEN " and "
                    ELSE " " \o self.conj \o " "
             r == str(self.coords[i])
         IN  IF r.exc # "" THEN r
             ELSE CC_str_from(self, i + 1, result \o sep \o r.ret)

\* CC.__str__
CC_str(self) == CC_str_from(self, 1, "")

\* str(x), by the class of x; Element.__str__ gathers no text
str(x) ==
    CASE x.kind = "String" -> String_str(x)
      [] x.kind = "Word" -> Word_str(x)
      [] x.kind = "PlaceHolder" -> PlaceHolder_to_str(x)
      [] x.kind = "Clause" -> Clause_str(x)
      [] x.kind = "NP" -> NP_str(x)
      [] x.kind = "CC" -> CC_str(x)
      [] x.kind \in {"Phrase", "VP", "PP", "AdvP", "AdjP"} -> Phrase_str(x)
      [] x.kind = "str" -> Str(x.val)
      [] x.kind = "None" -> Str("None")
      [] OTHER -> Str("")

\* ------------------------------------------------------------- StrVisitor

RECURSIVE StrVisitor_accept(_, _)
RECURSIVE StrVisitor_accept_all(_, _, _)

\* for c in lst: c.accept(self), from index i on
StrVisitor_accept_all(lst, i, v) ==
    IF i > Len(lst) \/ v.exc # "" THEN v
    ELSE StrVisitor_accept_all(lst, i + 1, StrVisitor_accept(lst[i], v))

\* if x: x.accept(self)
StrVisitor_accept_if(x, v) == IF x # None THEN StrVisitor_accept(x, v) ELSE v

\* self.text += ' ' + value, value a feature value
EmitFeature(v, value) ==
    IF value = PyNone THEN Fail(v, "TypeError") ELSE Emit(v, " " \o value)

\* StrVisitor.visit_string
StrVisitor_visit_string(node, v) == Emit(v, " " \o Text(node.val))

\* StrVisitor.visit_word
StrVisitor_visit_word(node, v) == Emit(v, " " \o Word_str(node).ret)

\* StrVisitor.visit_placeholder
StrVisitor_visit_placeholder(node, v) ==
    LET r == PlaceHolder_to_str(node)
    IN  IF r.exc # "" THEN Fail(v, r.exc) ELSE Emit(v, " " \o r.ret)

\* IVisitor.visit_phrase, for a StrVisitor
StrVisitor_visit_phrase(node, v) ==
    LET v1 == IF Negated(node) THEN Emit(v, " not") ELSE v
        v2 == StrVisitor_accept_all(node.front_modifier, 1, v1)
        v3 == StrVisitor_accept_all(node.pre_modifier, 1, v2)
        v4 == StrVisitor_accept_if(node.head, v3)
        v5 == IF has_feature(node, "COMPLEMENTISER")
              THEN EmitFeature(v4, get_feature(node, "COMPLEMENTISER").ret)
              ELSE v4
        v6 == StrVisitor_accept_all(node.complement, 1, v5)
    IN  StrVisitor_accept_all(node.post_modifier, 1, v6)

\* StrVisitor.visit_clause
StrVisitor_visit_clause(node, v) ==
    LET v1 == IF Negated(node) THEN Emit(v, " not") ELSE v
        v2 == StrVisitor_accept_if(node.subj, v1)
    IN  StrVisitor_accept_if(node.vp, v2)

\* A faulty StrVisitor.visit_np that visits the specifier last
StrVisitor_visit_np_spec_last(node, v) ==
    StrVisitor_accept_if(node.spec, StrVisitor_visit_phrase(node, v))

\* StrVisitor.visit_np
StrVisitor_visit_np(node, v) ==
    StrVisitor_visit_phrase(node, StrVisitor_accept_if(node.spec, v))

\* node.conj, read by StrVisitor.visit_cc
Conj(node, v) == IF HasAttr(node, "conj") THEN v ELSE Fail(v, "AttributeError")

\* The loop of StrVisitor.visit_cc over node.coords[:-1], from index i on
RECURSIVE StrVisitor_visit_cc_loop(_, _, _)
StrVisitor_visit_cc_loop(node, i, v) ==
    IF i > Len(node.coords) - 1 \/ v.exc # "" THEN v
    ELSE LET v1 == Conj(node, StrVisitor_accept(node.coords[i], v))
             v2 == IF v1.exc # "" THEN v1
                   ELSE IF node.conj = "and" THEN Emit(v1, ",")
                   ELSE Emit(v1, " " \o node.conj)
         IN  StrVisitor_visit_cc_loop(node, i + 1, v2)

\* StrVisitor.visit_cc
StrVisitor_visit_cc(node, v) ==
    LET n == Len(node.coords)
    IN  IF n > 2
        THEN LET v1 == StrVisitor_visit_cc_loop(node, 1, v)
                 v2 == IF v1.exc # "" THEN v1
                       ELSE [v1 EXCEPT !.text = SubSeq(@, 1, Len(@) - 1)]
                 v3 == Conj(node, v2)
                 v4 == IF v3.exc # "" THEN v3 ELSE Emit(v3, " " \o node.conj)
             IN  StrVisitor_accept(node.coords[n], v4)
        ELSE IF n > 1
        THEN LET v1 == StrVisitor_accept(node.coords[1], v)
                 c == get_feature(node, "conj")
                 v2 == IF c.exc # "" THEN Fail(v1, c.exc) ELSE EmitFeature(v1, c.ret)
             IN  StrVisitor_accept(node.coords[2], v2)
        ELSE IF n > 0 THEN StrVisitor_accept(node.coords[1], v)
        ELSE v

\* Element.accept for a StrVisitor: the method named by _visitor_name; raw
\* text has no accept
StrVisitor_accept(node, v) ==
    IF v.exc # "" THEN v
    ELSE CASE node.kind = "str" -> Fail(v, "AttributeError")
           [] node._visitor_name = "visit_string" -> StrVisitor_visit_string(node, v)
           [] node._visitor_name = "visit_word" -> StrVisitor_visit_word(node, v)
           [] node._visitor_name = "visit_placeholder" -> StrVisitor_visit_placeholder(node, v)
           [] node._visitor_name = "visit_clause" -> StrVisitor_visit_clause(node, v)
           [] node._visitor_name = "visit_np" -> StrVisitor_visit_np(node, v)
           [] node._visitor_name \in {"visit_vp", "visit_pp", "visit_phrase"} ->
                  StrVisitor_visit_phrase(node, v)
           [] node._visitor_name = "visit_cc" -> StrVisitor_visit_cc(node, v)
           [] OTHER -> v

\* v = StrVisitor(); node.accept(v); v.to_str()
StrVisitor_to_str(node) ==
    LET v == StrVisitor_accept(node, Visitor)
    IN  [ret |-> IF v.exc = "" THEN strip(v.text) ELSE "", exc |-> v.exc]

\* ------------------------------------------------------------- XmlVisitor

\* The characters urllib.parse.quote_plus leaves as they are
Unreserved ==
    {"a", "b", "c", "d", "e", "f", "g", "h", "i", "j", "k", "l", "m", "n", "o", "p",
     "q", "r", "s", "t", "u", "v", "w", "x", "y", "z",
     "A", "B", "C", "D", "E", "F", "G", "H", "I", "J", "K", "L", "M", "N", "O", "P",
     "Q", "R", "S", "T", "U", "V", "W", "X", "Y", "Z",
     "0", "1", "2", "3", "4", "5", "6", "7", "8", "9", "_", ".", "-", "~"}

\* quote_plus of one character of the texts of the model
quote_char(c) ==
    CASE c \in Unreserved -> c
      [] c = " " -> "+"
      [] c = "+" -> "%2B"
      [] c = "(" -> "%28"
      [] c = ")" -> "%29"
      [] c = "," -> "%2C"
      [] c = "<" -> "%3C"
      [] c = ">" -> "%3E"
      [] c = "\"" -> "%22"
      [] c = "&" -> "%26"
      [] c = "=" -> "%3D"
      [] c = "/" -> "%2F"

\* urllib.parse.quote_plus
RECURSIVE quote_plus(_)
quote_plus(s) == IF s = "" THEN "" ELSE quote_char(Head(s)) \o quote_plus(Tail(s))

\* The feature names of a node in the order of the dict: a feature keeps the
\* place of its first insertion, which the model does not record, so the
\* order is one of the orders of the keys
RECURSIVE KeyOrder(_)
KeyOrder(keys) ==
    IF keys = {} THEN <<>>
    ELSE LET k == CHOOSE x \in keys : TRUE IN <<k>> \o KeyOrder(keys \ {k})

\* Element.features_to_xml_attributes, from the i-th key on
RECURSIVE features_from(_, _, _)
features_from(self, keys, i) ==
    IF i > Len(keys) THEN ""
    ELSE quote_plus(keys[i]) \o "=\"" \o quote_plus(Text(self._features[keys[i]])) \o "\" "
             \o features_from(self, keys, i + 1)

\* Element.features_to_xml_attributes
features_to_xml_attributes(self) ==
    features_from(self, KeyOrder(DOMAIN self._features), 1)

\* String.to_xml and PlaceHolder.to_xml: the text is the val or the id
StringElement(element, text) ==
    "<" \o element \o " xsi:type=\"StringElement\">\n\t<val>" \o quote_plus(text)
        \o "</val>\n</" \o element \o ">\n"

\* String.to_xml
String_to_xml(self, element) == StringElement(element, Text(self.val))

\* PlaceHolder.to_xml
PlaceHolder_to_xml(self, element) == StringElement(element, Text(self.id))

\* Word.to_xml
Word_to_xml(self, element) ==
    LET word == IF self.word = "is" THEN "be" ELSE self.word
    IN  "<" \o element \o " xsi:type=\"WordElement\" cat=\"" \o quote_plus(Text(self.pos))
            \o "\">\n\t<base>" \o quote_plus(Text(word)) \o "</base>\n</" \o element \o ">\n"

\* The xsi:type each class writes in its to_xml
XsiType(self) ==
    CASE self.kind = "Clause" -> "SPhraseSpec"
      [] self.kind = "NP" -> "NPPhraseSpec"
      [] self.kind = "VP" -> "VPPhraseSpec"
      [] self.kind = "PP" -> "PPPhraseSpec"
      [] self.kind = "AdvP" -> "AdvPhraseSpec"
      [] self.kind = "AdjP" -> "AdjPhraseSpec"
      [] self.kind = "CC" -> "CoordinatedPhraseElement"

\* Clause.to_xml, NP.to_xml, VP.to_xml, PP.to_xml, AdvP.to_xml, AdjP.to_xml
\* and CC.to_xml: the opening tag with the features as attributes
to_xml(self, element) ==
    "<" \o element \o " xsi:type=\"" \o XsiType(self) \o "\" "
        \o features_to_xml_attributes(self) \o ">\n"

\* self.xml += '\n</%s>\n' % element
Close(v, element) == Emit(v, "\n</" \o element \o ">\n")

RECURSIVE XmlVisitor_accept(_, _, _)
RECURSIVE XmlVisitor_accept_all(_, _, _, _)

\* for c in lst: c.accept(self, element), from index i on
XmlVisitor_accept_all(lst, element, i, v) ==
    IF i > Len(lst) \/ v.exc # "" THEN v
    ELSE XmlVisitor_accept_all(lst, element, i + 1, XmlVisitor_accept(lst[i], element, v))

\* if x: x.accept(self, element)
XmlVisitor_accept_if(x, element, v) ==
    IF x # None THEN XmlVisitor_accept(x, element, v) ELSE v

\* IVisitor.visit_phrase, for an XmlVisitor: XmlVisitor.__init__ does not
\* call IVisitor.__init__, so the visitor has no attribute text and
\* self.text += ... raises AttributeError
XmlVisitor_visit_phrase(node, v) ==
    LET v1 == IF Negated(node) THEN Fail(v, "AttributeError") ELSE v
        v2 == XmlVisitor_accept_all(node.front_modifier, "frontMod", 1, v1)
        v3 == XmlVisitor_accept_all(node.pre_modifier, "preMod", 1, v2)
        v4 == XmlVisitor_accept_if(node.head, "head", v3)
        v5 == IF has_feature(node, "COMPLEMENTISER") THEN Fail(v4, "AttributeError")
              ELSE v4
        v6 == XmlVisitor_accept_all(node.complement, "compl", 1, v5)
    IN  XmlVisitor_accept_all(node.post_modifier, "postMod", 1, v6)

\* XmlVisitor.visit_clause
XmlVisitor_visit_clause(node, element, v) ==
    LET v1 == Emit(v, to_xml(node, element))
        v2 == XmlVisitor_accept_if(node.subj, "subj", v1)
        v3 == XmlVisitor_accept_if(node.vp, "vp", v2)
    IN  Close(v3, element)

\* XmlVisitor.visit_np
XmlVisitor_visit_np(node, element, v) ==
    LET v1 == Emit(v, to_xml(node, element))
        v2 == XmlVisitor_accept_if(node.spec, "spec", v1)
    IN  Close(XmlVisitor_visit_phrase(node, v2), element)

\* XmlVisitor.visit_vp and XmlVisitor.visit_pp
XmlVisitor_visit_pp(node, element, v) ==
    Close(XmlVisitor_visit_phrase(node, Emit(v, to_xml(node, element))), element)

\* XmlVisitor.visit_cc
XmlVisitor_visit_cc(node, element, v) ==
    Close(XmlVisitor_accept_all(node.coords, "coord", 1, Emit(v, to_xml(node, element))),
          element)

\* Element.accept for an XmlVisitor: the method named by _visitor_name; the
\* visitor has no visit_element, and raw text has no accept
XmlVisitor_accept(node, element, v) ==
    IF v.exc # "" THEN v
    ELSE CASE node.kind = "str" -> Fail(v, "AttributeError")
           [] node._visitor_name = "visit_string" -> Emit(v, String_to_xml(node, element))
           [] node._visitor_name = "visit_word" -> Emit(v, Word_to_xml(node, element))
           [] node._visitor_name = "visit_placeholder" ->
                  Emit(v, PlaceHolder_to_xml(node, element))
           [] node._visitor_name = "visit_clause" -> XmlVisitor_visit_clause(node, element, v)
           [] node._visitor_name = "visit_np" -> XmlVisitor_visit_np(node, element, v)
           [] node._visitor_name \in {"visit_vp", "visit_pp"} ->
                  XmlVisitor_visit_pp(node, element, v)
           [] node._visitor_name = "visit_cc" -> XmlVisitor_visit_cc(node, element, v)
           [] node._visitor_name = "visit_phrase" -> XmlVisitor_visit_phrase(node, v)
           [] OTHER -> Fail(v, "AttributeError")

\* XmlVisitor.header
header ==
    "\n<?xml version=\"1.0\" encoding=\"utf-8\"?>\n"
    \o "<nlg:NLGSpec xmlns=\"http://simplenlg.googlecode.com/svn/trunk/res/xml\"\n"
    \o "xmlns:nlg=\"http://simplenlg.googlecode.com/svn/trunk/res/xml\"\n"
    \o "xmlns:xsi=\"http://www.w3.org/2001/XMLSchema-instance\"\n"
    \o "xsi:schemaLocation=\"http://simplenlg.googlecode.com/svn/trunk/res/xml \">\n"
    \o "<nlg:Request>\n\n<Document cat=\"PARAGRAPH\">\n"

\* XmlVisitor.footer
footer == "\n</Document>\n</nlg:Request>\n</nlg:NLGSpec>\n"

\* v = XmlVisitor(); node.accept(v); v.to_xml()
XmlVisitor_to_xml(node) ==
    LET v == XmlVisitor_accept(node, "child", Visitor)
    IN  [ret |-> IF v.exc = "" THEN strip(header \o v.text \o footer) ELSE "",
         xml |-> v.text, exc |-> v.exc]

\* -------------------------------------------------------- macro-structure

\* [s for s in items if s is not None]
NotNone(items) == SelectSeq(items, LAMBDA s : s # None)

\* Document.__init__
Document(title, sections) ==
    [kind |-> "Document", title |-> title, sections |-> NotNone(sections)]

\* Section.__init__
Section(title, paragraphs) ==
    [kind |-> "Section", title |-> title, paragraphs |-> NotNone(paragraphs)]

\* Paragraph.__init__
Paragraph(messages) == [kind |-> "Paragraph", messages |-> NotNone(messages)]

\* Message.__init__
Message(rel, nucleus, satelites) ==
    [kind |-> "Message", rst |-> rel, nucleus |-> nucleus,
     satelites |-> NotNone(satelites), marker |-> ""]

\* The nodes x.constituents() yields, for an Element x
Yielded(x) == [i \in 1..Len(constituents(x)) |-> NodeAt(x, constituents(x)[i])]

\* bool(x): None and the empty text are false, any object is true
Truthy(x) == x # None /\ x # RawStr("")

\* The part of Message.constituents for one member: its constituents if it
\* has a constituents method, else the member itself
RECURSIVE Message_constituents(_), Message_yield(_), Message_yield_all(_, _)
Message_yield(x) ==
    IF x.kind = "Message" THEN Message_constituents(x)
    ELSE IF IsElement(x) THEN Yielded(x)
    ELSE <<x>>

Message_yield_all(lst, i) ==
    IF i > Len(lst) THEN <<>> ELSE Message_yield(lst[i]) \o Message_yield_all(lst, i + 1)

\* A faulty Message.constituents that yields the satellites first
Message_constituents_satelites_first(self) ==
    Message_yield_all(self.satelites, 1)
        \o (IF Truthy(self.nucleus) THEN Message_yield(self.nucleus) ELSE <<>>)

\* Message.constituents
Message_constituents(self) ==
    (IF Truthy(self.nucleus) THEN Message_yield(self.nucleus) ELSE <<>>)
        \o Message_yield_all(self.satelites, 1)

\* Paragraph.constituents
RECURSIVE Paragraph_constituents_from(_, _)
Paragraph_constituents_from(self, i) ==
    IF i > Len(self.messages) THEN <<>>
    ELSE Message_constituents(self.messages[i]) \o Paragraph_constituents_from(self, i + 1)

Paragraph_constituents(self) == Paragraph_constituents_from(self, 1)

\* Section.constituents
RECURSIVE Section_constituents_from(_, _)
Section_constituents_from(self, i) ==
    IF i > Len(self.paragraphs) THEN <<>>
    ELSE Paragraph_constituents(self.paragraphs[i]) \o Section_constituents_from(self, i + 1)

Section_constituents(self) == <<self.title>> \o Section_constituents_from(self, 1)

\* Document.constituents
RECURSIVE Document_constituents_from(_, _)
Document_constituents_from(self, i) ==
    IF i > Len(self.sections) THEN <<>>
    ELSE Section_constituents(self.sections[i]) \o Document_constituents_from(self, i + 1)

Document_constituents(self) == <<self.title>> \o Document_constituents_from(self, 1)

\* x.constituents() for a macro-structure x
Macro_constituents(x) ==
    CASE x.kind = "Document" -> Document_constituents(x)
      [] x.kind = "Section" -> Section_constituents(x)
      [] x.kind = "Paragraph" -> Paragraph_constituents(x)
      [] x.kind = "Message" -> Message_constituents(x)

\* ------------------------------------------------------------------- JSON

\* JSON texts, as the values they denote
JNull == [json |-> "null"]

JString(s) == [json |-> "string", s |-> s]

JArray(items) == [json |-> "array", items |-> items]

JObject(members) == [json |-> "object", members |-> members]

\* str(type(python_object))
ClassName(kind) == "<class 'nlg.structures." \o kind \o "'>"

\* The attributes of an object's __dict__ that hold an element or None, and
\* those that hold a list of elements
ChildFields == {"head", "subj", "vp", "spec", "value"}

ListFields == ListSlots \cup {"coords"}

\* ElemntCoder.to_json: the class name and the __dict__ of an Element
to_json(python_object) ==
    [class |-> ClassName(python_object.kind),
     value |-> [f \in DOMAIN python_object \ {"kind"} |-> python_object[f]]]

\* json.dumps(o, default=ElemntCoder.to_json)
RECURSIVE dumps(_)
dumps(o) ==
    CASE o.kind = "None" -> JNull
      [] o.kind = "str" -> JString(o.val)
      [] OTHER ->
          LET d == to_json(o)
              member(f) ==
                  CASE f \in ChildFields -> dumps(d.value[f])
                    [] f \in ListFields ->
                           JArray([i \in 1..Len(d.value[f]) |-> dumps(d.value[f][i])])
                    [] f = "_features" ->
                           JObject([k \in DOMAIN d.value[f] |-> JString(d.value[f][k])])
                    [] OTHER -> IF d.value[f] = PyNone THEN JNull ELSE JString(d.value[f])
          IN  JObject(("__class__" :> JString(d.class))
                      @@ ("__value__" :> JObject([f \in DOMAIN d.value |-> member(f)])))

\* The classes ElemntCoder.from_json knows
DecodedKinds == {"Element", "String", "Word", "PlaceHolder", "Phrase", "Clause",
                 "NP", "VP", "PP", "AdjP", "AdvP", "CC"}

\* Element.from_dict: an object of the class with dct as its __dict__
from_dict(Cls, dct) == ("kind" :> Cls) @@ dct

\* ElemntCoder.from_json with the branch for CC building an Element
from_json_cc_as_element(json_object) ==
    IF /\ "__class__" \in DOMAIN json_object
       /\ \E k \in DecodedKinds : json_object["__class__"] = ClassName(k)
    THEN LET k == CHOOSE k \in DecodedKinds : json_object["__class__"] = ClassName(k)
         IN  from_dict(IF k = "CC" THEN "Element" ELSE k, json_object["__value__"])
    ELSE json_object

\* ElemntCoder.from_json: the object a tagged dictionary stands for; any
\* other dictionary as it is
from_json(json_object) ==
    IF /\ "__class__" \in DOMAIN json_object
       /\ \E k \in DecodedKinds : json_object["__class__"] = ClassName(k)
    THEN LET k == CHOOSE k \in DecodedKinds : json_object["__class__"] = ClassName(k)
         IN  from_dict(k, json_object["__value__"])
    ELSE json_object

\* json.loads(s, object_hook=ElemntCoder.from_json): the hook is applied to
\* every dictionary once its members are decoded; f is the attribute the
\* value is decoded for ("" for a list item or the whole text)
RECURSIVE loads(_, _)
loads(f, j) ==
    CASE j.json = "null" -> IF f \in ChildFields \cup {""} THEN None ELSE PyNone
      [] j.json = "string" ->
             IF f \in ChildFields \cup {""} THEN RawStr(j.s) ELSE j.s
      [] j.json = "array" -> [i \in 1..Len(j.items) |-> loads("", j.items[i])]
      [] j.json = "object" ->
             from_json([k \in DOMAIN j.members |-> loads(k, j.members[k])])

\* ------------------------------------------------------------------ bounds

\* No tree is built beyond this number of nodes
MaxNodes == 3

\* No CC is given more than this number of coordinates
MaxCoords == 3

\* No more than this number of phrase objects is created for sharing
MaxObjects == 2

\* No generic phrase is given more than this number of children
MaxChildren == 3

\* ------------------------------------------------------------ state machine

\* The leaves trees are built from
Leaves == {String("a"), Word("w", "NOUN"),
           PlaceHolder("x", None), PlaceHolder("y", RawStr("v"))}

\* The values substituted for a node
Replacements == {String("a"), PlaceHolder("x", None)}

\* A parameter of a constructor or setter: nothing, raw text, a leaf, or the
\* tree built so far (which then becomes a subtree)
Params == {None, RawStr("a")} \cup Leaves \cup {tree}

\* The parameters given as *compl
Compls == {<<>>} \cup {<<c>> : c \in Params \ {None}}

\* The record of the last call: the operation, its two parameters, what it
\* returned or raised, and the tree before it
Called(op, a, b, r, before) ==
    [op |-> op, a |-> a, b |-> b, ret |-> r.ret, exc |-> r.exc, before |-> before]

Built == [op |-> "build", a |-> None, b |-> None, ret |-> PyNone, exc |-> "",
          before |-> None]

Init ==
    /\ tree \in Leaves
    /\ last = Built

\* No call is under way: the caller is free to make the next one
Idle == last.op = "build"

\* A constructor or setter returned t
Build(t) ==
    /\ Idle
    /\ Size(t) <= MaxNodes
    /\ tree' = t
    /\ last' = Built

\* The parameters of a constructor call: the tree built so far is one of
\* them, unless nothing but a leaf has been built yet
Uses(ps) == tree \in ps \/ tree.kind \in LeafKinds

\* Clause(subj, vp)
NewClause ==
    \E subj, vp \in Params :
        /\ Uses({subj, vp})
        /\ ~(subj = tree /\ vp = tree)
        /\ Build(Clause(subj, vp))

\* NP(head, spec)
NewNP ==
    \E head, spec \in Params :
        /\ Uses({head, spec})
        /\ ~(head = tree /\ spec = tree)
        /\ Build(NP(head, spec, None))

\* VP(head, *compl)
NewVP ==
    \E head \in Params, compl \in Compls :
        /\ Uses({head} \cup {compl[i] : i \in 1..Len(compl)})
        /\ ~(head = tree /\ compl = <<tree>>)
        /\ Build(VP(head, compl))

\* PP(head, *compl), AdvP(head, *compl), AdjP(head, *compl)
NewPP ==
    \E head \in Leaves, compl \in Compls :
        /\ Uses({compl[i] : i \in 1..Len(compl)})
        /\ Build(PP(head, compl))

NewAdvP ==
    \E head \in Leaves :
        /\ Uses({})
        /\ Build(AdvP(head, <<>>))

NewAdjP ==
    \E head \in Leaves :
        /\ Uses({})
        /\ Build(AdjP(head, <<>>))

\* CC(*coords)
NewCC ==
    \E coords \in Compls \cup {<<c, d>> : c \in Leaves \cup {tree}, d \in Leaves} :
        /\ Uses({coords[i] : i \in 1..Len(coords)})
        /\ Build(CC(coords, "and"))

\* self.add_front_modifier(m) ... self.add_post_modifier(m)
AddModifier ==
    \E slot \in ListSlots, m \in Leaves \cup {RawStr("a")} :
        /\ IsPhrase(tree)
        /\ Build(add_modifier(tree, slot, <<m>>))

\* self.set_head(elt)
SetHead ==
    \E elt \in Leaves \cup {RawStr("a")} :
        /\ IsPhrase(tree)
        /\ Build(set_head(tree, elt))

\* self.set_subj(subj)
SetSubj ==
    \E subj \in Leaves \cup {RawStr("a")} :
        /\ tree.kind = "Clause"
        /\ Build(set_subj(tree, subj))

\* self.set_vp(vp)
SetVp ==
    \E vp \in Leaves \cup {RawStr("a")} :
        /\ tree.kind = "Clause"
        /\ Build(set_vp(tree, vp))

\* self.set_spec(spec)
SetSpec ==
    \E spec \in Leaves \cup {RawStr("a")} :
        /\ tree.kind = "NP"
        /\ Build(set_spec(tree, spec))

\* self.add_coordinate(e)
AddCoordinate ==
    \E e \in Leaves \cup {RawStr("a")} :
        /\ tree.kind = "CC"
        /\ Build(add_coordinate(tree, <<e>>))

\* self.replace(one, another)
Replace ==
    \E one \in Descendants(tree) \cup Leaves, another \in Replacements \cup {None} :
        LET r == replace(tree, one, another)
        IN  /\ Idle
            /\ tree' = r.node
            /\ last' = Called("replace", one, another, r, tree)

\* self.replace_argument(arg_id, repl)
ReplaceArgument ==
    \E arg_id \in {"x", "y", "0"}, repl \in {String("a"), None} :
        LET r == replace_argument(tree, arg_id, repl)
        IN  /\ Idle
            /\ tree' = r.node
            /\ last' = Called("replace_argument", arg_id, repl, r, tree)

\* The dicts given to replace_arguments, each as the sequence of its items
Mappings ==
    {<<>>, << <<"x", String("a")>> >>,
     << <<"x", String("a")>>, <<"y", Word("w", "NOUN")>> >>}

\* The dicts given as the positional parameter alone: a key may also be an
\* integer or a str of two characters
Dicts == Mappings \cup {<< <<"0", String("a")>> >>, << <<"ab", String("a")>> >>}

\* self.replace_arguments(*args, **kwargs)
ReplaceArguments ==
    \E c \in {<<<<>>, k>> : k \in Mappings}
               \cup {<<<<d>>, <<>>>> : d \in Dicts}
               \cup {<<<<d>>, << <<"x", String("a")>> >>>> :
                        d \in {<<>>, << <<"x", String("a")>> >>}}
               \cup {<<<<d, d>>, <<>>>> : d \in {<< <<"x", String("a")>> >>}} :
        LET r == replace_arguments(tree, c[1], c[2])
        IN  /\ Idle
            /\ tree' = r.node
            /\ last' = Called("replace_arguments", c[1], c[2], r, tree)

\* The caller has looked at what the call returned or raised and goes on
Continue ==
    /\ ~Idle
    /\ last' = Built
    /\ UNCHANGED tree

Next ==
    \/ NewClause
    \/ NewNP
    \/ NewVP
    \/ NewPP
    \/ NewAdvP
    \/ NewAdjP
    \/ NewCC
    \/ AddModifier
    \/ SetHead
    \/ SetSubj
    \/ SetVp
    \/ SetSpec
    \/ AddCoordinate
    \/ Replace
    \/ ReplaceArgument
    \/ ReplaceArguments
    \/ Continue

Spec == Init /\ [][Next]_vars

\* The construction of trees alone
BuildNext ==
    \/ NewClause
    \/ NewNP
    \/ NewVP
    \/ NewPP
    \/ NewAdvP
    \/ NewAdjP
    \/ NewCC
    \/ AddModifier
    \/ SetHead
    \/ SetSubj
    \/ SetVp
    \/ SetSpec
    \/ AddCoordinate

SpecBuild == Init /\ [][BuildNext]_vars

\* ------------------------------------------- the feature store of an element

FeatureKeys == {"conj", "NEGATION", "discourseFunction"}

FeatureValues == {"TRUE", "OBJECT", PyNone}

\* self.add_feature(feature, value)
AddFeature ==
    \E k \in FeatureKeys, v \in FeatureValues :
        /\ Idle
        /\ tree' = add_feature(tree, k, v)
        /\ last' = Called("add_feature", k, v, Return(PyNone, tree), tree)

\* self.del_feature(feat) and self.del_feature(feat, val): val is None when
\* the parameter is omitted
DelFeature ==
    \E k \in FeatureKeys, v \in FeatureValues :
        /\ Idle
        /\ tree' = del_feature(tree, k, v)
        /\ last' = Called("del_feature", k, v, Return(PyNone, tree), tree)

FeatureInit ==
    /\ tree \in {String("a"), PlaceHolder("x", None), CC(<<String("a")>>, "and"),
                 NP(String("a"), None, None)}
    /\ last = Built

FeatureNext == AddFeature \/ DelFeature \/ Continue

SpecFeature == FeatureInit /\ [][FeatureNext]_vars

\* ------------------------------------------------------- the object of a VP

\* An element the caller has tagged as an object
Tagged(e) == add_feature(e, "discourseFunction", "OBJECT")

\* The complements and objects given to a VP
Objects == {String("a"), PlaceHolder("x", None), Tagged(String("o")),
            Tagged(NP(String("a"), None, None))}

\* self.add_complement(c)
AddComplement ==
    \E c \in Objects :
        /\ Idle
        /\ tree' = add_modifier(tree, "complement", <<c>>)
        /\ last' = Called("add_complement", c, None, Return(PyNone, tree), tree)

\* self.set_object(obj)
SetObject ==
    \E obj \in Objects \cup {None, RawStr("o")} :
        LET r == set_object(tree, obj)
        IN  /\ Idle
            /\ tree' = r.node
            /\ last' = Called("set_object", obj, None, r, tree)

\* self.remove_object()
RemoveObject ==
    LET r == remove_object(tree)
    IN  /\ Idle
        /\ tree' = r.node
        /\ last' = Called("remove_object", None, None, r, tree)

\* self.get_object()
GetObject ==
    LET r == get_object(tree)
    IN  /\ Idle
        /\ tree' = r.node
        /\ last' = Called("get_object", None, None, r, tree)

VPInit ==
    /\ tree \in {VP(Word("put", "VERB"), <<>>), VP(RawStr("a"), <<Tagged(String("o"))>>)}
    /\ last = Built

VPNext == AddComplement \/ SetObject \/ RemoveObject \/ GetObject \/ Continue

SpecVP == VPInit /\ [][VPNext]_vars


\* ------------------------------------------- raw text given as a replacement

\* self.set_value(val) on a PlaceHolder
SetValue ==
    \E val \in {None, RawStr("a"), String("a")} :
        /\ tree.kind = "PlaceHolder"
        /\ Build(set_value(tree, val))

\* self.replace(one, text)
ReplaceText ==
    \E one \in {d \in Descendants(tree) : IsElement(d)} \cup Leaves :
        LET r == replace(tree, one, RawStr("a"))
        IN  /\ Idle
            /\ tree' = r.node
            /\ last' = Called("replace", one, RawStr("a"), r, tree)

\* self.replace_argument(arg_id, text), the tree holding Elements only
ReplaceArgumentText ==
    \E arg_id \in {"x", "y"} :
        LET r == replace_argument(tree, arg_id, RawStr("a"))
        IN  /\ Idle
            /\ \A d \in Descendants(tree) : IsElement(d)
            /\ tree' = r.node
            /\ last' = Called("replace_argument", arg_id, RawStr("a"), r, tree)

\* self.replace_arguments(x=text), the tree holding Elements only
ReplaceArgumentsText ==
    LET kwargs == << <<"x", RawStr("a")>> >>
        r == replace_arguments(tree, <<>>, kwargs)
    IN  /\ Idle
        /\ \A d \in Descendants(tree) : IsElement(d)
        /\ tree' = r.node
        /\ last' = Called("replace_arguments", <<>>, kwargs, r, tree)

TextNext ==
    \/ BuildNext
    \/ SetValue
    \/ ReplaceText
    \/ ReplaceArgumentText
    \/ ReplaceArgumentsText
    \/ Continue

SpecText == Init /\ [][TextNext]_vars


\* ------------------------------------------------- the modifier lists alone

\* The modifiers given to one call of an adder: one or two values
Mods ==
    LET vals == Leaves \cup {RawStr("a")}
    IN  {<<m>> : m \in vals} \cup {<<m, n>> : m \in vals, n \in vals}

\* self.add_front_modifier(*mods) ... self.add_post_modifier(*mods)
AddModifiers ==
    \E slot \in ListSlots, mods \in Mods :
        LET t == add_modifier(tree, slot, mods)
        IN  /\ Idle
            /\ Size(t) <= MaxNodes
            /\ tree' = t
            /\ last' = Called("add_modifier", slot, mods, Return(PyNone, t), tree)

AddInit ==
    /\ tree \in {PP(None, <<>>), VP(None, <<>>), NP(None, None, None), Clause(None, None)}
    /\ last = Built

AddNext == AddModifiers \/ Continue

SpecAdd == AddInit /\ [][AddNext]_vars


\* ------------------------------------------------------ the text of a CC

\* The coordinates given to a CC
Coordinates == {String("A"), RawStr("B"), Word("C", "NOUN")}

\* v = StrVisitor(); self.accept(v); v.to_str()
ToStr ==
    LET r == StrVisitor_to_str(tree)
    IN  /\ Idle
        /\ UNCHANGED tree
        /\ last' = Called("to_str", None, None, r, tree)

\* self.add_coordinate(e), up to MaxCoords coordinates
AddCoord ==
    \E e \in Coordinates :
        /\ Idle
        /\ Len(tree.coords) < MaxCoords
        /\ tree' = add_coordinate(tree, <<e>>)
        /\ last' = Built

CCInit ==
    /\ tree \in {CC(<<>>, "and"), CC(<<>>, "or")}
    /\ last = Built

CCNext == AddCoord \/ ToStr \/ Continue

SpecCC == CCInit /\ [][CCNext]_vars


\* ------------------------------------------------------------- the renderers

\* Clause('Roman', vp), vp = VP('be', PP('in', NP('office', 'the'))) with
\* vp.add_feature('NEGATION', 'TRUE')
RomanClause ==
    Clause(RawStr("Roman"),
           add_feature(VP(RawStr("be"),
                          <<PP(RawStr("in"), <<NP(RawStr("office"), RawStr("the"), None)>>)>>),
                       "NEGATION", "TRUE"))

\* NP('x', 'there+exists') with the post-modifier NP('p') carrying
\* COMPLEMENTISER = 'such+that'
ThereExists ==
    add_modifier(NP(RawStr("x"), RawStr("there+exists"), None), "post_modifier",
                 <<add_feature(NP(RawStr("p"), None, None), "COMPLEMENTISER", "such+that")>>)

\* The features the renderers read
RenderFeatures ==
    {<<"NEGATION", "TRUE">>, <<"NEGATION", "FALSE">>, <<"COMPLEMENTISER", "that">>}

\* self.add_feature(k, v) on a phrase or a CC that carries none of these
\* features yet
SetFeature ==
    \E f \in RenderFeatures :
        /\ tree.kind \notin LeafKinds
        /\ DOMAIN tree._features \subseteq {"conj"}
        /\ Build(add_feature(tree, f[1], f[2]))

\* v = XmlVisitor(); self.accept(v); v.to_xml()
ToXml ==
    LET r == XmlVisitor_to_xml(tree)
    IN  /\ Idle
        /\ UNCHANGED tree
        /\ last' = Called("to_xml", None, None, r, tree)

RenderInit ==
    /\ tree \in Leaves \cup {RomanClause, ThereExists}
    /\ last = Built

RenderNext ==
    \/ BuildNext
    \/ SetValue
    \/ SetFeature
    \/ ToStr
    \/ ToXml
    \/ Continue

SpecRender == RenderInit /\ [][RenderNext]_vars


\* ------------------------------------------------------- dispatch failures

\* Element(): a node of the base class, whose visitor name is visit_element
BaseElement == Element("visit_element")

\* self.add_front_modifier(Element()) and the like
AddElement ==
    \E slot \in ListSlots :
        /\ IsPhrase(tree)
        /\ Build(add_modifier(tree, slot, <<BaseElement>>))

DispatchInit ==
    /\ tree \in Leaves \cup {BaseElement}
    /\ last = Built

\* Trees that may hold a base Element, and their rendering
DispatchNext ==
    \/ BuildNext
    \/ AddElement
    \/ ToStr
    \/ ToXml
    \/ Continue

SpecDispatch == DispatchInit /\ [][DispatchNext]_vars


\* ------------------------------------------------------------------ coding

\* Phrase()
GenericPhrase == Phrase(PyNone, PyNone, "visit_phrase")

\* A dictionary tagged with a class the decoder does not know
UnknownTagged ==
    {("__class__" :> ClassName(k)) @@ ("__value__" :> v) :
        k \in {"Tree", "MsgSpec"}, v \in {NoFeatures, [id |-> "0"]}}

\* json.loads(json.dumps(self, default=ElemntCoder.to_json),
\*            object_hook=ElemntCoder.from_json)
RoundTrip ==
    /\ Idle
    /\ UNCHANGED tree
    /\ last' = Called("round_trip", None, None,
                      [ret |-> loads("", dumps(tree)), exc |-> ""], tree)

\* ElemntCoder.from_json(d) for a dictionary d with an unknown tag; the call
\* does not involve the tree, so it is made before a tree is put together
DecodeUnknown ==
    \E d \in UnknownTagged :
        /\ Idle
        /\ Size(tree) = 1
        /\ UNCHANGED tree
        /\ last' = [Called("from_json", None, None, [ret |-> from_json(d), exc |-> ""], tree)
                        EXCEPT !.a = d]

JsonInit ==
    /\ tree \in Leaves \cup {BaseElement, GenericPhrase}
    /\ last = Built

\* Trees of every class, with features, and their coding
JsonNext ==
    \/ BuildNext
    \/ SetFeature
    \/ RoundTrip
    \/ DecodeUnknown
    \/ Continue

SpecJson == JsonInit /\ [][JsonNext]_vars


\* -------------------------------------------------------- shared objects

\* Python passes objects by reference: a setter stores the object it is
\* given, not a copy.  Here tree holds the phrase objects created so far, and
\* a slot of an object holds None, a leaf, or a reference to an object.
Ref(i) == [kind |-> "ref", to |-> i]

\* The objects a given object refers to in its slots
Refs(o) ==
    {o[f].to : f \in {g \in SingleSlots(o) : o[g].kind = "ref"}}
        \cup UNION {{o[f][k].to : k \in {m \in 1..Len(o[f]) : o[f][m].kind = "ref"}} :
                       f \in SeqSlots(o)}

\* The objects reached from the set S of objects in at most n further steps
RECURSIVE ReachFrom(_, _, _)
ReachFrom(h, S, n) ==
    IF n = 0 THEN S
    ELSE ReachFrom(h, S \cup UNION {Refs(h[i]) : i \in S}, n - 1)

\* The objects below object i: its children, their children and so on
Under(h, i) == ReachFrom(h, Refs(h[i]), Len(h))

\* Some object is its own descendant
Cyclic(h) == \E i \in 1..Len(h) : i \in Under(h, i)

\* The tree object i stands for, when no object at or below it is its own
\* descendant
RECURSIVE Unfold(_, _)
Unfold(h, i) ==
    LET o == h[i]
        child(x) == IF x.kind = "ref" THEN Unfold(h, x.to) ELSE x
    IN  [f \in DOMAIN o |->
            IF f \in SingleSlots(o) THEN child(o[f])
            ELSE IF f \in SeqSlots(o) THEN [k \in 1..Len(o[f]) |-> child(o[f][k])]
            ELSE o[f]]

\* list(self.constituents()) for object i: NP.constituents and
\* Phrase.constituents call constituents() on every child, so the call recurses
\* without end, until Python raises RecursionError, when an object at or below
\* i is its own descendant
Heap_constituents(h, i) ==
    IF \E j \in {i} \cup Under(h, i) : j \in Under(h, j)
    THEN Raise("RecursionError", PyNone)
    ELSE [ret |-> constituents(Unfold(h, i)), exc |-> ""]

\* What a setter or adder is given: a leaf or one of the objects
HeapParams == {String("a")} \cup {Ref(j) : j \in 1..Len(tree.objects)}

\* NP() or VP()
HeapNew ==
    \E o \in {NP(None, None, None), VP(None, <<>>)} :
        /\ Idle
        /\ Len(tree.objects) < MaxObjects
        /\ tree' = [tree EXCEPT !.objects = Append(@, o)]
        /\ last' = Built

\* p.set_head(elt)
HeapSetHead ==
    \E i \in 1..Len(tree.objects), elt \in HeapParams :
        /\ Idle
        /\ tree' = [tree EXCEPT !.objects[i] = set_head(@, elt)]
        /\ last' = Built

\* p.set_spec(elt)
HeapSetSpec ==
    \E i \in 1..Len(tree.objects), elt \in HeapParams :
        /\ Idle
        /\ tree.objects[i].kind = "NP"
        /\ tree' = [tree EXCEPT !.objects[i] = set_spec(@, elt)]
        /\ last' = Built

\* p.add_complement(elt) for a p that has no complement yet
HeapAddComplement ==
    \E i \in 1..Len(tree.objects), elt \in HeapParams :
        /\ Idle
        /\ tree.objects[i].complement = <<>>
        /\ tree' = [tree EXCEPT !.objects[i] = add_modifier(@, "complement", <<elt>>)]
        /\ last' = Built

\* list(p.constituents())
HeapConstituents ==
    \E i \in 1..Len(tree.objects) :
        /\ Idle
        /\ UNCHANGED tree
        /\ last' = Called("constituents", Ref(i), None,
                          Heap_constituents(tree.objects, i), tree)

HeapInit ==
    /\ tree = [kind |-> "heap", objects |-> <<>>]
    /\ last = Built

HeapNext ==
    \/ HeapNew
    \/ HeapSetHead
    \/ HeapSetSpec
    \/ HeapAddComplement
    \/ HeapConstituents
    \/ Continue

SpecHeap == HeapInit /\ [][HeapNext]_vars


\* ---------------------------------------------------------- document plans

\* The elements messages are made of
Contents == {String("a"), NP(RawStr("h"), RawStr("the"), None)}

\* The titles of sections and documents
Titles == {None, String("T")}

\* What is given as *satelites
Satelites ==
    {<<>>} \cup {<<s>> : s \in Contents \cup {None}}
        \cup {<<s, t>> : s, t \in Contents \cup {None}}

\* Members given next to the structure built so far
OtherMessage == Message("Leaf", String("m"), <<>>)

OtherParagraph == Paragraph(<<OtherMessage>>)

OtherSection == Section(String("S"), <<OtherParagraph>>)

\* Message(rel, nucleus, *satelites)
NewMessage ==
    \E nucleus \in Contents \cup {None}, satelites \in Satelites :
        /\ Idle
        /\ tree = None
        /\ tree' = Message("Elaboration", nucleus, satelites)
        /\ last' = Built

\* Paragraph(*messages)
NewParagraph ==
    \E messages \in {<<tree>>, <<None, tree>>, <<OtherMessage, tree, None>>} :
        /\ Idle
        /\ tree.kind = "Message"
        /\ tree' = Paragraph(messages)
        /\ last' = Built

\* Section(title, *paragraphs)
NewSection ==
    \E title \in Titles, paragraphs \in {<<tree>>, <<None, tree, OtherParagraph>>} :
        /\ Idle
        /\ tree.kind = "Paragraph"
        /\ tree' = Section(title, paragraphs)
        /\ last' = Built

\* Document(title, *sections)
NewDocument ==
    \E title \in Titles,
       sections \in {<<>>, <<tree>>, <<tree, None, OtherSection>>, <<OtherSection, tree>>} :
        /\ Idle
        /\ tree.kind = "Section"
        /\ tree' = Document(title, sections)
        /\ last' = Built

\* list(self.constituents())
MacroConstituents ==
    /\ Idle
    /\ tree # None
    /\ UNCHANGED tree
    /\ last' = Called("constituents", None, None,
                      [ret |-> Macro_constituents(tree), exc |-> ""], tree)

DocInit ==
    /\ tree = None
    /\ last = Built

DocNext ==
    \/ NewMessage
    \/ NewParagraph
    \/ NewSection
    \/ NewDocument
    \/ MacroConstituents
    \/ Continue

SpecDoc == DocInit /\ [][DocNext]_vars


\* ---------------------------------------------------------- generic phrase

\* The children a generic phrase is given: some render as the empty text
Productions == {String("f"), String(""), Word("w", "NOUN"), PlaceHolder("x", None)}

\* One more child fits
Room == Size(tree) <= MaxChildren

\* self.add_front_modifier(m) and the like, on a generic Phrase
PhraseAdd ==
    \E slot \in ListSlots, m \in Productions :
        /\ Idle
        /\ Room
        /\ tree' = add_modifier(tree, slot, <<m>>)
        /\ last' = Built

\* self.set_head(elt) on a generic Phrase without a head
PhraseSetHead ==
    \E elt \in Productions :
        /\ Idle
        /\ Room
        /\ tree.head = None
        /\ tree' = set_head(tree, elt)
        /\ last' = Built

\* self.add_feature('COMPLEMENTISER', value)
PhraseSetComplementiser ==
    \E value \in {"that", ""} :
        /\ Idle
        /\ ~has_feature(tree, "COMPLEMENTISER")
        /\ tree' = add_feature(tree, "COMPLEMENTISER", value)
        /\ last' = Built

PhraseInit ==
    /\ tree = GenericPhrase
    /\ last = Built

PhraseNext ==
    \/ PhraseAdd
    \/ PhraseSetHead
    \/ PhraseSetComplementiser
    \/ ToStr
    \/ Continue

SpecPhrase == PhraseInit /\ [][PhraseNext]_vars


\* ------------------------------------------------------ string conversion

\* str(self)
BuiltinStr ==
    /\ Idle
    /\ UNCHANGED tree
    /\ last' = Called("str", None, None, str(tree), tree)

\* Trees with features, and their two conversions to text
StrNext ==
    \/ BuildNext
    \/ SetFeature
    \/ ToStr
    \/ BuiltinStr
    \/ Continue

SpecStr == RenderInit /\ [][StrNext]_vars

\* ------------------------------------------------------------------ claims

\* The set of the elements of a sequence
Range(seq) == {seq[i] : i \in 1..Len(seq)}

\* The paths of the leaves (String, Word, PlaceHolder) of the tree n
LeafPaths(n) == {p \in Paths(n) : NodeAt(n, p).kind \in LeafKinds}

\* A path enters the inherited head slot of a Clause of the tree n
UnderClauseHead(n, p) ==
    \E i \in 1..Len(p) :
        /\ NodeAt(n, SubSeq(p, 1, i - 1)).kind = "Clause"
        /\ p[i][1] = "head"

\* C1 (as claimed): constituents(T) yields each leaf of T exactly once and
\* never yields a Phrase, Clause, NP or CC node.
C1_EveryLeafOnce ==
    LET cs == constituents(tree)
    IN  /\ \A i \in 1..Len(cs) : NodeAt(tree, cs[i]).kind \in LeafKinds
        /\ \A i, j \in 1..Len(cs) : i # j => cs[i] # cs[j]
        /\ Range(cs) = LeafPaths(tree)

\* C1 (amended): constituents(T) yields only leaves, none of them twice, and
\* yields every leaf of T except those under the head slot of a Clause, which
\* Clause.constituents does not traverse.
C1_EveryLeafOnceButClauseHead ==
    LET cs == constituents(tree)
    IN  /\ \A i \in 1..Len(cs) : NodeAt(tree, cs[i]).kind \in LeafKinds
        /\ \A i, j \in 1..Len(cs) : i # j => cs[i] # cs[j]
        /\ Range(cs) = {p \in LeafPaths(tree) : ~UnderClauseHead(tree, p)}

\* A clause whose subject is a phrase with a leaf, beside a leaf of its own
C1_Witness ==
    /\ tree.kind = "Clause"
    /\ IsPhrase(tree.subj)
    /\ Len(constituents(tree)) = 1
    /\ tree.head = None

\* The position the claimed order gives a slot among the slots of its node
SlotRank(kind, slot) ==
    CASE kind = "Clause" ->
             (CASE slot = "front_modifier" -> 1 [] slot = "subj" -> 2
                [] slot = "pre_modifier" -> 3 [] slot = "vp" -> 4
                [] slot = "complement" -> 5 [] slot = "post_modifier" -> 6
                [] OTHER -> 0)
      [] kind = "NP" ->
             (CASE slot = "spec" -> 1 [] slot = "front_modifier" -> 2
                [] slot = "pre_modifier" -> 3 [] slot = "head" -> 4
                [] slot = "complement" -> 5 [] slot = "post_modifier" -> 6
                [] OTHER -> 0)
      [] OTHER ->
             (CASE slot = "front_modifier" -> 1 [] slot = "pre_modifier" -> 2
                [] slot = "head" -> 3 [] slot = "complement" -> 4
                [] slot = "post_modifier" -> 5 [] slot = "coords" -> 1
                [] OTHER -> 0)

\* Path p comes before path q in the claimed order: where they part, p
\* takes the slot of lower rank, or the same list at a lower index
RECURSIVE Before(_, _, _)
Before(n, p, q) ==
    /\ p # <<>>
    /\ q # <<>>
    /\ IF Head(p) = Head(q)
       THEN Before(NodeAt(n, <<Head(p)>>), Tail(p), Tail(q))
       ELSE \/ SlotRank(n.kind, Head(p)[1]) < SlotRank(n.kind, Head(q)[1])
            \/ Head(p)[1] = Head(q)[1] /\ Head(p)[2] < Head(q)[2]

RECURSIVE Subst(_, _, _)
Subst(n, p, y) ==
    IF p = <<>> THEN y
    ELSE LET sl == Head(p)[1]
             i == Head(p)[2]
         IN  IF i = 0 THEN [n EXCEPT ![sl] = Subst(n[sl], Tail(p), y)]
             ELSE [n EXCEPT ![sl][i] = Subst(n[sl][i], Tail(p), y)]

\* The sequence s without its i-th element
Without(s, i) == SubSeq(s, 1, i - 1) \o SubSeq(s, i + 1, Len(s))

\* The tree n with the list element at path p taken out of its list
RECURSIVE RemoveAt(_, _)
RemoveAt(n, p) ==
    LET sl == Head(p)[1]
        i == Head(p)[2]
    IN  IF Len(p) = 1 THEN [n EXCEPT ![sl] = Without(n[sl], i)]
        ELSE IF i = 0 THEN [n EXCEPT ![sl] = RemoveAt(n[sl], Tail(p))]
        ELSE [n EXCEPT ![sl][i] = RemoveAt(n[sl][i], Tail(p))]

\* The paths below the root of n whose node equals x
Occurrences(n, x) == {p \in Paths(n) \ {<<>>} : Eq(NodeAt(n, p), x)}

\* The ids of the PlaceHolders that are leaves of n
PlaceHolderIds(n) == {NodeAt(n, p).id : p \in {q \in LeafPaths(n) : NodeAt(n, q).kind = "PlaceHolder"}}

\* The ids of the PlaceHolders among the constituents of n
ReachedIds(n) ==
    {NodeAt(n, p).id : p \in {q \in Range(constituents(n)) : NodeAt(n, q).kind = "PlaceHolder"}}

\* The ids of the PlaceHolders that arguments() reports
ArgumentIds(n) == {NodeAt(n, p).id : p \in Range(arguments(n))}

\* C3: replace(x, y), x a child of T in any slot and y an Element, returns
\* True, and afterwards y is where an x was and every other slot and list
\* position of T is unchanged.
C3_ReplaceInPlace ==
    (/\ last.op = "replace"
     /\ last.b # None
     /\ \E p \in Occurrences(last.before, last.a) : Len(p) = 1)
    => /\ last.exc = ""
       /\ last.ret = TRUE
       /\ \E p \in Occurrences(last.before, last.a) :
              tree = Subst(last.before, p, last.b)

\* C4: a substitution that finds no match returns False and leaves the tree
\* unchanged: replace(x, y) when no node of T equals x, replace_argument(id, y)
\* when no PlaceHolder of T has that id, whatever ids the other nodes carry.
C4_NoMatchNoChange ==
    /\ (/\ last.op = "replace"
        /\ \A p \in Paths(last.before) : ~Eq(NodeAt(last.before, p), last.a))
       => (last.ret = FALSE /\ last.exc = "" /\ tree = last.before)
    /\ (/\ last.op = "replace_argument"
        /\ last.a \notin ReachedIds(last.before))
       => (last.ret = FALSE /\ last.exc = "" /\ tree = last.before)

\* replace_argument(0, y) on a tree that holds a PlaceHolder beside a String
\* whose id is the default 0
C4_Witness ==
    /\ last.op = "replace_argument"
    /\ last.a = "0"
    /\ last.b # None
    /\ PlaceHolderIds(last.before) # {}
    /\ \E p \in LeafPaths(last.before) :
           NodeAt(last.before, p).kind = "String" /\ NodeAt(last.before, p).id = "0"
    /\ last.ret = FALSE

\* C5: replace is depth-first over every node kind, a CC's coordinates
\* included: on a tree T with children, a call that returns has returned
\* True when a node equal to the target is below T, and replace_argument(id, y)
\* has returned True for every PlaceHolder id that arguments(T) reports.
C5_EveryArgumentReplaced ==
    /\ (/\ last.op = "replace"
        /\ last.before.kind \notin LeafKinds
        /\ Occurrences(last.before, last.a) # {}
        /\ last.exc = "")
       => last.ret = TRUE
    /\ (/\ last.op = "replace_argument"
        /\ last.before.kind \notin LeafKinds
        /\ last.a \in ArgumentIds(last.before)
        /\ last.exc = "")
       => last.ret = TRUE

\* C6: replace(target, None), the target an element of a list slot of T,
\* removes that one element from its list, leaves every other slot unchanged
\* and returns True.
C6_DeleteFromList ==
    (/\ last.op = "replace"
     /\ last.b = None
     /\ Occurrences(last.before, last.a) # {}
     /\ \A p \in Occurrences(last.before, last.a) : Len(p) = 1 /\ p[1][2] # 0)
    => /\ last.exc = ""
       /\ last.ret = TRUE
       /\ \E p \in Occurrences(last.before, last.a) :
              tree = RemoveAt(last.before, p)

\* C7: replace_arguments called with a positional mapping and named
\* parameters at once fails with the error for invalid arguments and
\* replaces nothing.
C7_MixedFormsRejected ==
    (/\ last.op = "replace_arguments"
     /\ Len(last.a) > 0
     /\ Len(last.b) > 0)
    => /\ last.exc = "ValueError: too many parameters"
       /\ tree = last.before

\* C8: replace_arguments given one mapping whose keys are PlaceHolder ids of
\* the tree ends as replace_arguments given the same pairs as named
\* parameters does.
C8_MappingAsNamed ==
    (/\ last.op = "replace_arguments"
     /\ Len(last.a) = 1
     /\ last.b = <<>>
     /\ last.a[1] # <<>>
     /\ \A i \in 1..Len(last.a[1]) : last.a[1][i][1] \in ArgumentIds(last.before))
    => LET named == replace_arguments(last.before, <<>>, last.a[1])
       IN  /\ tree = named.node
           /\ last.exc = named.exc

\* C9: del_feature(key) removes key whenever it is present, whatever its
\* value; del_feature(key, v) removes key only if the stored value is v and
\* otherwise changes nothing; all other keys are unchanged and an absent key
\* is a no-op.
C9_DelFeature ==
    last.op = "del_feature" =>
        LET k == last.a
            v == last.b
            f == last.before._features
        IN  /\ k \notin DOMAIN f => tree = last.before
            /\ (k \in DOMAIN f /\ (v = PyNone \/ f[k] = v))
                   => tree = [last.before EXCEPT !._features = WithoutKey(f, k)]
            /\ (k \in DOMAIN f /\ v # PyNone /\ f[k] # v) => tree = last.before

\* C10: set_object(obj), obj not None, succeeds, leaves obj first among the
\* complements tagged OBJECT as the only object, keeps the other complements
\* in their order, and get_object() then returns obj.
C10_SetObject ==
    (last.op = "set_object" /\ last.a # None) =>
        /\ last.exc = ""
        /\ Len(tree.complement) >= 1
        /\ Eq(tree.complement[1], Coerce(last.a))
        /\ get_object(tree).exc = ""
        /\ get_object(tree).ret = tree.complement[1]
        /\ \E rest \in SUBSET (1..Len(last.before.complement)) :
               Tail(tree.complement) =
                   [i \in 1..Cardinality(rest) |->
                       last.before.complement[CHOOSE j \in rest :
                           Cardinality({m \in rest : m < j}) = i - 1]]

\* C11: in every state reachable through the public operations, called with
\* raw text or Elements as values, every occupied child slot of every Phrase,
\* Clause, NP and CC holds an Element and never raw text.
C11_SlotsHoldElements == \A d \in Descendants(tree) : IsElement(d)

\* No two elements of the list are equal
NoDuplicates(lst) == \A i, j \in 1..Len(lst) : i # j => ~Eq(lst[i], lst[j])

\* C12: an adder appends a value, text coerced to String, at the end of its
\* list only if no equal Element is in the list already, and otherwise leaves
\* the list as it is; a list built through the adders alone never holds two
\* equal Elements.
C12_AddersDeduplicate ==
    /\ \A slot \in ListSlots : NoDuplicates(tree[slot])
    /\ last.op = "add_modifier" =>
           LET old == last.before[last.a]
               new == tree[last.a]
               given == strings_to_elements(last.b)
           IN  /\ tree = [last.before EXCEPT ![last.a] = new]
               /\ Len(new) >= Len(old)
               /\ SubSeq(new, 1, Len(old)) = old
               /\ \A i \in 1..Len(given) : In(given[i], new)
               /\ \A k \in (Len(old) + 1)..Len(new) :
                      /\ \E i \in 1..Len(given) : new[k] = given[i]
                      /\ ~In(new[k], old)

\* An adder was given the same value twice for a list of one element, and
\* the list grew by one
C12_Witness ==
    /\ last.op = "add_modifier"
    /\ Len(last.b) = 2
    /\ Eq(Coerce(last.b[1]), Coerce(last.b[2]))
    /\ Len(tree[last.a]) = Len(last.before[last.a]) + 1
    /\ Len(last.before[last.a]) = 1

\* C13: for every CC, in every state reachable through add_feature and
\* del_feature (with or without an expected value), the feature map contains
\* the key conj.
C13_ConjPresent == tree.kind = "CC" => "conj" \in DOMAIN tree._features

\* The text of a leaf coordinate
CoordText(c) == IF c.kind = "Word" THEN c.word ELSE c.val

\* C14: the string rendering of a CC with the default conjunction is the
\* empty string for no coordinate, the coordinate's text for one, "A and B"
\* for two and "A, B, and C" for three.
C14_DefaultConjunction ==
    (last.op = "to_str" /\ tree.kind = "CC" /\ tree._features["conj"] = "and") =>
        LET c == tree.coords
            t == [i \in 1..Len(c) |-> CoordText(c[i])]
        IN  /\ last.exc = ""
            /\ Len(c) = 0 => last.ret = ""
            /\ Len(c) = 1 => last.ret = t[1]
            /\ Len(c) = 2 => last.ret = t[1] \o " and " \o t[2]
            /\ Len(c) = 3 => last.ret = t[1] \o ", " \o t[2] \o ", and " \o t[3]

\* C15: the string rendering of a CC whose conjunction is "or" is "A or B"
\* for two coordinates and "A, B or C" for three.
C15_OtherConjunction ==
    (last.op = "to_str" /\ tree.kind = "CC" /\ tree._features["conj"] = "or") =>
        LET c == tree.coords
            t == [i \in 1..Len(c) |-> CoordText(c[i])]
        IN  /\ last.exc = ""
            /\ Len(c) = 2 => last.ret = t[1] \o " or " \o t[2]
            /\ Len(c) = 3 => last.ret = t[1] \o ", " \o t[2] \o " or " \o t[3]

\* C16: the Clause with subject "Roman" and a verb phrase with head "be",
\* feature NEGATION = "TRUE" and the complement PP("in", NP(spec "the", head
\* "office")) renders through the string renderer as exactly
\* "Roman not be in the office".
C16_RomanNotInTheOffice ==
    (last.op = "to_str" /\ tree = RomanClause) =>
        (last.exc = "" /\ last.ret = "Roman not be in the office")

\* The string renderer has rendered that clause
C16_Witness ==
    /\ last.op = "to_str"
    /\ tree = RomanClause
    /\ tree.vp._features["NEGATION"] = "TRUE"
    /\ last.ret # ""

\* The tokens of a text: its maximal runs of characters other than the space
RECURSIVE TokensFrom(_, _, _)
TokensFrom(s, cur, acc) ==
    IF s = "" THEN (IF cur = "" THEN acc ELSE Append(acc, cur))
    ELSE IF Head(s) = " "
         THEN TokensFrom(Tail(s), "", IF cur = "" THEN acc ELSE Append(acc, cur))
         ELSE TokensFrom(Tail(s), cur \o Head(s), acc)

Tokens(s) == TokensFrom(s, "", <<>>)

\* The tokens the string renderer gives for a child, none for an empty slot
ChildTokens(x) == IF x = None THEN <<>> ELSE Tokens(StrVisitor_to_str(x).ret)

\* The tokens of the children of a list slot, in list order
RECURSIVE ListTokens(_)
ListTokens(lst) ==
    IF lst = <<>> THEN <<>> ELSE ChildTokens(Head(lst)) \o ListTokens(Tail(lst))

\* The token "not" of a node: once if it carries NEGATION = "TRUE"
NotToken(n) ==
    IF "NEGATION" \in DOMAIN n._features /\ n._features["NEGATION"] = "TRUE"
    THEN <<"not">> ELSE <<>>

\* The token of the COMPLEMENTISER of a node
ComplementiserTokens(n) ==
    IF "COMPLEMENTISER" \in DOMAIN n._features
    THEN Tokens(n._features["COMPLEMENTISER"]) ELSE <<>>

\* The tokens of the generic phrase part of a node: "not", then the children
PhraseBodyTokens(n) ==
    NotToken(n) \o ListTokens(n.front_modifier) \o ListTokens(n.pre_modifier)
        \o ChildTokens(n.head) \o ComplementiserTokens(n)
        \o ListTokens(n.complement) \o ListTokens(n.post_modifier)

\* C17: in the string renderer a Clause or a generic phrase (VP, PP, AdvP,
\* AdjP, the body of an NP) carrying NEGATION = "TRUE" emits the token "not"
\* exactly once, before the tokens of all its children; a node without the
\* feature, or with another value, emits no "not".
C17_NotBeforeChildren ==
    (last.op = "to_str" /\ tree.kind \in PhraseKinds) =>
        /\ last.exc = ""
        /\ tree.kind = "Clause" =>
               Tokens(last.ret) = NotToken(tree) \o ChildTokens(tree.subj) \o ChildTokens(tree.vp)
        /\ tree.kind = "NP" =>
               Tokens(last.ret) = ChildTokens(tree.spec) \o PhraseBodyTokens(tree)
        /\ tree.kind \in {"VP", "PP", "AdvP", "AdjP"} =>
               Tokens(last.ret) = PhraseBodyTokens(tree)

\* A phrase carrying NEGATION = "TRUE" has been rendered with a child, and
\* its text starts with "not"
C17_Witness ==
    /\ last.op = "to_str"
    /\ tree.kind \in {"VP", "PP", "NP"}
    /\ NotToken(tree) = <<"not">>
    /\ Len(Tokens(last.ret)) >= 2
    /\ Tokens(last.ret)[1] = "not"

\* The positions of the character c in the text s
Positions(s, c) == {i \in 1..Len(s) : SubSeq(s, i, i) = c}

\* The elements of a set of numbers in increasing order
RECURSIVE Sorted(_)
Sorted(S) ==
    IF S = {} THEN <<>>
    ELSE LET m == CHOOSE x \in S : \A y \in S : x <= y IN <<m>> \o Sorted(S \ {m})

\* The tags of an XML text, each as the text between its < and >; <<"!">>
\* when the angle brackets of s do not pair up
Tags(s) ==
    LET lt == Sorted(Positions(s, "<"))
        gt == Sorted(Positions(s, ">"))
    IN  IF /\ Len(lt) = Len(gt)
           /\ \A i \in 1..Len(lt) : lt[i] < gt[i]
           /\ \A i \in 1..(Len(lt) - 1) : gt[i] < lt[i + 1]
        THEN [i \in 1..Len(lt) |-> SubSeq(s, lt[i] + 1, gt[i] - 1)]
        ELSE <<"!">>

\* The element name of a tag: its text up to the first space or line break,
\* without the / of a closing tag
TagName(t) ==
    LET u == IF Head(t) = "/" THEN Tail(t) ELSE t
        ends == Positions(u, " ") \cup Positions(u, "\n")
    IN  IF ends = {} THEN u
        ELSE SubSeq(u, 1, (CHOOSE x \in ends : \A y \in ends : x <= y) - 1)

\* The tags from the i-th on nest properly inside the open elements of stack
\* (innermost last) and close them all
RECURSIVE Nested(_, _, _)
Nested(tags, i, stack) ==
    IF i > Len(tags) THEN stack = <<>>
    ELSE LET t == tags[i]
         IN  IF t = "" \/ t = "!" THEN FALSE
             ELSE IF Head(t) = "?" THEN Nested(tags, i + 1, stack)
             ELSE IF Head(t) = "/"
             THEN /\ stack # <<>>
                  /\ stack[Len(stack)] = TagName(t)
                  /\ Nested(tags, i + 1, SubSeq(stack, 1, Len(stack) - 1))
             ELSE Nested(tags, i + 1, Append(stack, TagName(t)))

\* The text is the envelope NLGSpec > Request > Document cat=PARAGRAPH around
\* properly nested elements
WellFormed(s) ==
    LET tags == Tags(s)
        n == Len(tags)
    IN  /\ n >= 7
        /\ Head(tags[1]) = "?"
        /\ TagName(tags[2]) = "nlg:NLGSpec"
        /\ tags[3] = "nlg:Request"
        /\ tags[4] = "Document cat=\"PARAGRAPH\""
        /\ tags[n - 2] = "/Document"
        /\ tags[n - 1] = "/nlg:Request"
        /\ tags[n] = "/nlg:NLGSpec"
        /\ Nested(tags, 1, <<>>)
        /\ Nested(SubSeq(tags, 5, n - 3), 1, <<>>)

\* C18: for every tree built from the supported kinds the XML renderer's
\* output is the fixed envelope around a properly nested element sequence,
\* every opening tag closed by a closing tag of the same name after the
\* node's children and before any sibling.
C18_WellNestedXml ==
    last.op = "to_xml" => (last.exc = "" /\ WellFormed(last.ret))

\* Whenever the XML renderer returns, what it returns is well formed
XmlWellFormedWhenReturned ==
    (last.op = "to_xml" /\ last.exc = "") => WellFormed(last.ret)

\* The text sub occurs in the text s
Contains(s, sub) ==
    \E i \in 1..(Len(s) - Len(sub) + 1) : SubSeq(s, i, i + Len(sub) - 1) = sub

\* The XML attribute a feature is written as, key and value percent-escaped
Attribute(k, v) == quote_plus(k) \o "=\"" \o quote_plus(v) \o "\""

\* The opening tag of the rendered node: the first tag inside the envelope
OpeningTag(s) == Tags(s)[5]

\* C19: for every phrase node and every feature map it carries, the keys
\* NEGATION and COMPLEMENTISER included, XML rendering completes and the
\* node's opening tag carries one attribute per feature.
C19_FeaturesAsAttributes ==
    (last.op = "to_xml" /\ last.before.kind \in PhraseKinds \cup {"CC"}) =>
        /\ last.exc = ""
        /\ \A k \in DOMAIN last.before._features :
               Contains(OpeningTag(last.ret), Attribute(k, last.before._features[k]))

\* Whenever the XML renderer returns for a phrase, the opening tag carries
\* one attribute per feature of the phrase
AttributesWhenReturned ==
    (last.op = "to_xml" /\ last.exc = "" /\ last.before.kind \in PhraseKinds \cup {"CC"}) =>
        \A k \in DOMAIN last.before._features :
            Contains(OpeningTag(last.ret), Attribute(k, last.before._features[k]))

\* The text a PlaceHolder stands for: that of its bound value, else its id
BoundText(p) == IF p.value # None THEN p.value.val ELSE p.id

\* C20: whenever a PlaceHolder is rendered, by the string renderer or by the
\* XML serializer, the output is the text of its bound value if a value is
\* bound and its id otherwise; a raw text value is first wrapped into a String.
C20_PlaceHolderRendersValue ==
    (last.op \in {"to_str", "to_xml"} /\ last.before.kind = "PlaceHolder") =>
        /\ last.before.value.kind \in {"None", "String"}
        /\ last.exc = ""
        /\ last.op = "to_str" => last.ret = BoundText(last.before)
        /\ last.op = "to_xml" =>
               Contains(last.ret, "<val>" \o quote_plus(BoundText(last.before)) \o "</val>")

\* The string renderer writes a PlaceHolder as its bound value's text, else
\* as its id, and a bound value is always a String
PlaceHolderStrRendersValue ==
    (last.op = "to_str" /\ last.before.kind = "PlaceHolder") =>
        /\ last.before.value.kind \in {"None", "String"}
        /\ last.exc = ""
        /\ last.ret = BoundText(last.before)

\* The XML serializer writes a PlaceHolder as its id, bound or not
PlaceHolderXmlRendersId ==
    (last.op = "to_xml" /\ last.before.kind = "PlaceHolder") =>
        /\ last.exc = ""
        /\ Contains(last.ret, "<val>" \o quote_plus(last.before.id) \o "</val>")

\* The node n and the nodes below it
Nodes(n) == {n} \cup Descendants(n)

\* The nodes the XML renderer calls accept on when it renders n: of a Clause
\* the subject and the verb phrase, of any other node every child
RECURSIVE XmlVisited(_)
XmlVisited(n) ==
    {n} \cup UNION {XmlVisited(NodeAt(n, <<st>>)) :
                       st \in {s \in Steps(n) : n.kind = "Clause" => s[1] \in {"subj", "vp"}}}

\* C21: rendering a tree that contains a node whose dispatch tag has no
\* method on the renderer (a base Element given to the XML renderer) aborts
\* the whole render with an error and returns no document.
C21_DispatchFailureAborts ==
    (last.op = "to_xml" /\ \E d \in Nodes(last.before) : d.kind = "Element") =>
        (last.exc = "AttributeError" /\ last.ret = "")

\* The render aborts when the XML renderer reaches a base Element
DispatchAbortsWhenVisited ==
    (last.op = "to_xml" /\ \E d \in XmlVisited(last.before) : d.kind = "Element") =>
        (last.exc = "AttributeError" /\ last.ret = "")

\* C22: for every Element tree of every concrete kind, encoding with the
\* tagged JSON form and decoding it again yields a tree equal to the original
\* under the Elements' own equality; a dictionary whose __class__ tag is
\* unknown is returned unchanged by the decoder.
C22_JsonRoundTrip ==
    /\ last.op = "round_trip" =>
           /\ last.ret.kind = last.before.kind
           /\ Eq(last.before, last.ret)
           /\ Eq(last.ret, last.before)
    /\ last.op = "from_json" => last.ret = last.a

\* A phrase holding a CC, with a feature, has been coded and decoded
C22_Witness ==
    /\ last.op = "round_trip"
    /\ last.before.kind \in PhraseKinds
    /\ \E d \in Descendants(last.before) : d.kind = "CC"
    /\ DOMAIN last.before._features # {}

\* A dictionary with an unknown tag has been given to the decoder
C22_UnknownTagDecoded == last.op = "from_json" /\ "__class__" \in DOMAIN last.a

\* C23: every tree reachable through the public constructors, setters,
\* adders and replace operations is acyclic (no node is its own descendant),
\* so constituents() terminates on every reachable tree.
C23_TreesAcyclic ==
    /\ ~Cyclic(tree.objects)
    /\ last.op = "constituents" => last.exc = ""

\* constituents() returns for every object that has no object at or below it
\* that is its own descendant
ConstituentsReturnsWhenAcyclic ==
    (last.op = "constituents" /\ ~Cyclic(last.before.objects)) => last.exc = ""

\* The macro-structures at and below x
RECURSIVE MacroParts(_)
MacroParts(x) ==
    {x} \cup
    CASE x.kind = "Document" -> UNION {MacroParts(x.sections[i]) : i \in 1..Len(x.sections)}
      [] x.kind = "Section" -> UNION {MacroParts(x.paragraphs[i]) : i \in 1..Len(x.paragraphs)}
      [] x.kind = "Paragraph" -> UNION {MacroParts(x.messages[i]) : i \in 1..Len(x.messages)}
      [] OTHER -> {}

\* C24: after construction of a Document, Section, Paragraph or Message no
\* field holds None: None sections, paragraphs, messages and satellites are
\* absent from their sequences, and a None title or nucleus is not stored as
\* a value either.
C24_NoneNotStored ==
    \A x \in MacroParts(tree) :
        /\ x.kind = "Document" => (x.title # None /\ \A i \in 1..Len(x.sections) : x.sections[i] # None)
        /\ x.kind = "Section" => (x.title # None /\ \A i \in 1..Len(x.paragraphs) : x.paragraphs[i] # None)
        /\ x.kind = "Paragraph" => \A i \in 1..Len(x.messages) : x.messages[i] # None
        /\ x.kind = "Message" => (x.nucleus # None /\ \A i \in 1..Len(x.satelites) : x.satelites[i] # None)

\* No sequence of a macro-structure holds None
SequencesHoldNoNone ==
    \A x \in MacroParts(tree) :
        /\ x.kind = "Document" => \A i \in 1..Len(x.sections) : x.sections[i] # None
        /\ x.kind = "Section" => \A i \in 1..Len(x.paragraphs) : x.paragraphs[i] # None
        /\ x.kind = "Paragraph" => \A i \in 1..Len(x.messages) : x.messages[i] # None
        /\ x.kind = "Message" => \A i \in 1..Len(x.satelites) : x.satelites[i] # None

\* The concatenation of the sequences f(1), ..., f(n)
RECURSIVE Concat(_, _, _)
Concat(f(_), i, n) == IF i > n THEN <<>> ELSE f(i) \o Concat(f, i + 1, n)

\* The flattening of a message in document order: the constituents of the
\* nucleus, if there is one, then those of each satellite
FlatMessage(m) ==
    LET sat(i) == Yielded(m.satelites[i])
    IN  (IF m.nucleus = None THEN <<>> ELSE Yielded(m.nucleus))
            \o Concat(sat, 1, Len(m.satelites))

\* The flattening of a section: its title, then the messages of each of its
\* paragraphs
FlatSection(s) ==
    LET par(i) ==
            LET p == s.paragraphs[i]
                msg(j) == FlatMessage(p.messages[j])
            IN  Concat(msg, 1, Len(p.messages))
    IN  <<s.title>> \o Concat(par, 1, Len(s.paragraphs))

\* The flattening of a document: its title, then each section
FlatDocument(d) ==
    LET sec(i) == FlatSection(d.sections[i])
    IN  <<d.title>> \o Concat(sec, 1, Len(d.sections))

\* C25: macro-structure constituents() flattens in document order: a
\* Document yields its title, then for each section in order that section's
\* title followed by the constituents of each of its paragraphs' messages in
\* order; a Message yields the constituents of its nucleus (nothing if the
\* nucleus is absent) followed by the constituents of each satellite in order.
C25_DocumentOrder ==
    last.op = "constituents" =>
        /\ last.before.kind = "Document" => last.ret = FlatDocument(last.before)
        /\ last.before.kind = "Section" => last.ret = FlatSection(last.before)
        /\ last.before.kind = "Message" => last.ret = FlatMessage(last.before)

\* A document of two sections, the first with two paragraphs, has been
\* flattened, and more than one satellite was yielded
C25_Witness ==
    /\ last.op = "constituents"
    /\ last.before.kind = "Document"
    /\ Len(last.before.sections) = 2
    /\ Len(last.before.sections[1].paragraphs) = 2
    /\ Len(last.ret) >= 8

\* The occurrence of x in n that comes first in the order of constituents():
\* the one before every other occurrence
FirstOccurrences(n, x) ==
    {p \in Occurrences(n, x) : \A q \in Occurrences(n, x) \ {p} : Before(n, p, q)}

\* C26: replace scans children in the same order as constituents(): when a
\* tree contains two or more nodes equal to the target, replace(target, y)
\* substitutes the one that comes first in constituents() order (for a Clause
\* a matching front-modifier in preference to a matching subject or verb
\* phrase, a matching pre-modifier in preference to a matching verb phrase),
\* and only that one.
C26_ReplaceFirstInOrder ==
    (/\ last.op = "replace"
     /\ last.b # None
     /\ Cardinality(Occurrences(last.before, last.a)) >= 2
     /\ FirstOccurrences(last.before, last.a) # {})
    => /\ last.exc = ""
       /\ last.ret = TRUE
       /\ \A p \in FirstOccurrences(last.before, last.a) :
              tree = Subst(last.before, p, last.b)

\* In a phrase that is not a Clause, replace substitutes the first of several
\* occurrences, and only that one
ReplaceFirstOutsideClause ==
    (/\ last.op = "replace"
     /\ last.b # None
     /\ last.before.kind \in PhraseKinds \ {"Clause"}
     /\ \A d \in Descendants(last.before) : d.kind # "Clause"
     /\ Cardinality(Occurrences(last.before, last.a)) >= 2
     /\ FirstOccurrences(last.before, last.a) # {})
    => /\ last.exc = ""
       /\ last.ret = TRUE
       /\ \A p \in FirstOccurrences(last.before, last.a) :
              tree = Subst(last.before, p, last.b)

\* The clause c without its own modifiers and complements
Bare(c) ==
    [c EXCEPT !.front_modifier = <<>>, !.pre_modifier = <<>>,
              !.complement = <<>>, !.post_modifier = <<>>]

\* The element name the XML renderer gives the members of a list slot
SlotElement(slot) ==
    CASE slot = "front_modifier" -> "frontMod"
      [] slot = "pre_modifier" -> "preMod"
      [] slot = "complement" -> "compl"
      [] slot = "post_modifier" -> "postMod"

\* A rendering of a Clause that has modifiers or complements of its own has
\* returned
ClauseWithModifiersRendered(op) ==
    /\ last.op = op
    /\ last.exc = ""
    /\ last.before.kind = "Clause"
    /\ \E slot \in ListSlots : last.before[slot] # <<>>

\* C27: a Clause's own front-modifiers, pre-modifiers, complements and
\* post-modifiers are not emitted by the string renderer, which emits only
\* the subject's rendering followed by the verb phrase's, but are emitted by
\* the XML renderer as frontMod/preMod/compl/postMod child elements of the
\* clause element.
C27_ClauseModifiers ==
    /\ ClauseWithModifiersRendered("to_str") =>
           last.ret = StrVisitor_to_str(Bare(last.before)).ret
    /\ ClauseWithModifiersRendered("to_xml") =>
           \A slot \in ListSlots :
               last.before[slot] # <<>> =>
                   Contains(last.ret, "<" \o SlotElement(slot) \o " ")

\* The string renderer leaves out a Clause's own modifiers and complements
StrOmitsClauseModifiers ==
    ClauseWithModifiersRendered("to_str") =>
        last.ret = StrVisitor_to_str(Bare(last.before)).ret

\* The XML renderer leaves out a Clause's own modifiers and complements as well
XmlOmitsClauseModifiers ==
    ClauseWithModifiersRendered("to_xml") =>
        last.ret = XmlVisitor_to_xml(Bare(last.before)).ret

\* The text a leaf stands for
LeafText(x) ==
    CASE x.kind = "String" -> x.val
      [] x.kind = "Word" -> x.word
      [] x.kind = "PlaceHolder" -> BoundText(x)

\* The productions of a generic phrase whose children are leaves, in the
\* order front-modifiers, pre-modifiers, head, COMPLEMENTISER value,
\* complements, post-modifiers
ProductionsOf(p) ==
    [i \in 1..Len(p.front_modifier) |-> LeafText(p.front_modifier[i])]
        \o [i \in 1..Len(p.pre_modifier) |-> LeafText(p.pre_modifier[i])]
        \o (IF p.head = None THEN <<>> ELSE <<LeafText(p.head)>>)
        \o (IF "COMPLEMENTISER" \in DOMAIN p._features
            THEN <<p._features["COMPLEMENTISER"]>> ELSE <<>>)
        \o [i \in 1..Len(p.complement) |-> LeafText(p.complement[i])]
        \o [i \in 1..Len(p.post_modifier) |-> LeafText(p.post_modifier[i])]

\* The texts of a sequence joined by one space
RECURSIVE SpaceJoined(_)
SpaceJoined(texts) ==
    IF texts = <<>> THEN ""
    ELSE IF Len(texts) = 1 THEN texts[1]
    ELSE texts[1] \o " " \o SpaceJoined(Tail(texts))

\* C28: the string renderer's output for a generic Phrase is the non-empty
\* productions of front-modifiers, pre-modifiers, head, the COMPLEMENTISER
\* value (if the feature is present), complements and post-modifiers, in that
\* order, joined by exactly one space; empty productions contribute neither a
\* token nor an extra space, and there is no leading or trailing whitespace.
C28_SpaceJoinedProductions ==
    (last.op = "to_str" /\ last.before.kind = "Phrase") =>
        /\ last.exc = ""
        /\ last.ret = SpaceJoined(SelectSeq(ProductionsOf(last.before), LAMBDA s : s # ""))

\* When no production of the phrase is empty, the output is the productions
\* joined by one space
JoinedWhenNoneEmpty ==
    (/\ last.op = "to_str"
     /\ last.before.kind = "Phrase"
     /\ \A i \in 1..Len(ProductionsOf(last.before)) : ProductionsOf(last.before)[i] # "")
    => /\ last.exc = ""
       /\ last.ret = SpaceJoined(ProductionsOf(last.before))

\* C29: the two string projections agree: for every tree of the supported
\* kinds, str(T) yields the same text as running a fresh StrVisitor over T and
\* calling to_str(), including for trees with NEGATION or COMPLEMENTISER
\* features and for CC nodes with any number of coordinates.
C29_StringProjectionsAgree ==
    last.op = "str" =>
        /\ last.exc = ""
        /\ StrVisitor_to_str(last.before).exc = ""
        /\ last.ret = StrVisitor_to_str(last.before).ret

\* No node of n is a CC or negated, no Clause has modifiers of its own, and
\* every phrase has a head, a subject or a verb phrase
Plain(n) ==
    \A d \in Nodes(n) :
        /\ d.kind # "CC"
        /\ d.kind \in PhraseKinds => ~Negated(d)
        /\ d.kind = "Clause" => (d = Bare(d) /\ (d.subj # None \/ d.vp # None))
        /\ d.kind \in PhraseKinds \ {"Clause"} => d.head # None

\* The projections agree on such trees
AgreeOnPlainTrees ==
    (last.op = "str" /\ Plain(last.before))
    => /\ last.exc = ""
       /\ StrVisitor_to_str(last.before).exc = ""
       /\ last.ret = StrVisitor_to_str(last.before).ret

====
